---- MODULE Spec2Model ----
(***************************************************************************)
(* Model of the request execution engine of mailbreeze-js:                 *)
(*   src/http/fetcher.ts  (Fetcher: retry loop, timeout, response parsing) *)
(*   src/http/errors.ts   (error classes, createErrorFromResponse)         *)
(* One Fetcher and one request call on it, from the call to its outcome.    *)
(***************************************************************************)
EXTENDS Integers, Sequences, FiniteSets, TLC

(***************************************************************************)
(* Bounds of the model.                                                    *)
(***************************************************************************)
\* largest config.maxRetries explored (the smallest is -1: nothing validates it)
MaxRetries == 3

(***************************************************************************)
(* JavaScript values.                                                      *)
(*   optional numbers: Undef (undefined), NaN, Num(n)                      *)
(*   strings that the code inspects are sequences of one-character strings *)
(*   strings that the code only copies are TLA+ strings; "undefined" is    *)
(*   the absent value                                                      *)
(***************************************************************************)
Undef == [tag |-> "undefined", n |-> 0]
NaN == [tag |-> "NaN", n |-> 0]
Num(n) == [tag |-> "number", n |-> n]

\* headers.get() of a header that is not there
Null == <<"NULL">>
\* an optional argument that was not passed
Undefined == <<"UNDEFINED">>

Digits == {"0", "1", "2", "3", "4", "5", "6", "7", "8", "9"}

DigitVal(c) ==
  CASE c = "0" -> 0 [] c = "1" -> 1 [] c = "2" -> 2 [] c = "3" -> 3 [] c = "4" -> 4
    [] c = "5" -> 5 [] c = "6" -> 6 [] c = "7" -> 7 [] c = "8" -> 8 [] c = "9" -> 9

\* JS truthiness of a string: non-empty (null and undefined are falsy)
TruthyStr(s) == s # Null /\ s # Undefined /\ s # <<>>

\* JS truthiness of an optional number: a number other than 0 and NaN
TruthyNum(v) == v.tag = "number" /\ v.n # 0

RECURSIVE SkipSpace(_)
SkipSpace(s) == IF s # <<>> /\ Head(s) = " " THEN SkipSpace(Tail(s)) ELSE s

RECURSIVE DigitPrefix(_, _)
\* value of the longest prefix of decimal digits of s, acc the value so far
DigitPrefix(s, acc) ==
  IF s # <<>> /\ Head(s) \in Digits
    THEN DigitPrefix(Tail(s), acc * 10 + DigitVal(Head(s)))
    ELSE acc

\* Number.parseInt(s, 10): leading blanks, an optional sign, then the longest
\* run of digits; NaN when there is no digit
ParseInt(s) ==
  LET t == SkipSpace(s)
      neg == t # <<>> /\ Head(t) = "-"
      u == IF t # <<>> /\ Head(t) \in {"-", "+"} THEN Tail(t) ELSE t
  IN  IF u = <<>> \/ Head(u) \notin Digits
        THEN NaN
        ELSE IF neg THEN Num(0 - DigitPrefix(u, 0)) ELSE Num(DigitPrefix(u, 0))

(***************************************************************************)
(* errors.ts: the error classes.  name is the class, so instanceof is a    *)
(* test on name.                                                           *)
(***************************************************************************)
NoError == [name |-> "none", message |-> "undefined", code |-> "undefined",
            statusCode |-> Undef, requestId |-> "undefined",
            details |-> "undefined", retryAfter |-> Undef]

MailBreezeError(message, code, statusCode, requestId, details) ==
  [name |-> "MailBreezeError", message |-> message, code |-> code,
   statusCode |-> statusCode, requestId |-> requestId, details |-> details,
   retryAfter |-> Undef]

AuthenticationError(message, code, requestId) ==
  [MailBreezeError(message, code, Num(401), requestId, "undefined")
     EXCEPT !.name = "AuthenticationError"]

\* a ValidationError whose constructor does not pass details on
ValidationErrorNoDetails(message, code, requestId, details) ==
  [MailBreezeError(message, code, Num(400), requestId, "undefined")
     EXCEPT !.name = "ValidationError"]

ValidationError(message, code, requestId, details) ==
  [MailBreezeError(message, code, Num(400), requestId, details)
     EXCEPT !.name = "ValidationError"]

NotFoundError(message, code, requestId) ==
  [MailBreezeError(message, code, Num(404), requestId, "undefined")
     EXCEPT !.name = "NotFoundError"]

RateLimitError(message, code, requestId, retryAfter) ==
  [MailBreezeError(message, code, Num(429), requestId, "undefined")
     EXCEPT !.name = "RateLimitError", !.retryAfter = retryAfter]

ServerError(message, code, statusCode, requestId) ==
  [MailBreezeError(message, code, Num(statusCode), requestId, "undefined")
     EXCEPT !.name = "ServerError"]

\* a built-in Error (TypeError, AbortError): no code, no statusCode
NativeError(name, message) ==
  [NoError EXCEPT !.name = name, !.message = message]

\* a thrown value that is not an Error object
NonError == [NoError EXCEPT !.name = "NonError"]

MailBreezeErrorNames ==
  {"MailBreezeError", "AuthenticationError", "ValidationError", "NotFoundError",
   "RateLimitError", "ServerError"}

\* error instanceof MailBreezeError
IsMailBreezeError(e) == e.name \in MailBreezeErrorNames

\* error instanceof Error
IsErrorObject(e) == e.name \notin {"NonError", "none"}

(***************************************************************************)
(* errors.ts: createErrorFromResponse.  body is an error body              *)
(* [code, message, details] or NoBody (undefined / null).                  *)
(***************************************************************************)
NoBody == [code |-> "undefined", message |-> "undefined", details |-> "undefined"]

\* a || b instead of a ?? b: the empty string gives way too
CoalesceOr(a, b) == IF a \in {"undefined", ""} THEN b ELSE a

\* a ?? b on strings
Coalesce(a, b) == IF a = "undefined" THEN b ELSE a

\* body?.message, body?.code, body?.details: an undefined or null body has no
\* field, an object has the fields it carries ("undefined": not carried)
OptionalChain(body) ==
  IF body.kind \in {"undefined", "null"}
    THEN NoBody
    ELSE [code |-> body.code, message |-> body.message, details |-> body.details]

\* the default branch with statusCode > 500 instead of statusCode >= 500
createErrorFromResponseAbove500(statusCode, body, requestId, retryAfter) ==
  LET message == Coalesce(body.message, "Unknown error")
      code == Coalesce(body.code, "UNKNOWN_ERROR")
      details == body.details
  IN  CASE statusCode = 400 -> ValidationError(message, code, requestId, details)
        [] statusCode = 401 -> AuthenticationError(message, code, requestId)
        [] statusCode = 404 -> NotFoundError(message, code, requestId)
        [] statusCode = 429 -> RateLimitError(message, code, requestId, retryAfter)
        [] OTHER ->
             IF statusCode > 500
               THEN ServerError(message, code, statusCode, requestId)
               ELSE MailBreezeError(message, code, Num(statusCode), requestId, details)

\* variant: case 429 and case 503 share the RateLimitError branch
createErrorFromResponse503AsRateLimit(statusCode, body, requestId, retryAfter) ==
  LET message == Coalesce(body.message, "Unknown error")
      code == Coalesce(body.code, "UNKNOWN_ERROR")
      details == body.details
  IN  CASE statusCode = 400 -> ValidationError(message, code, requestId, details)
        [] statusCode = 401 -> AuthenticationError(message, code, requestId)
        [] statusCode = 404 -> NotFoundError(message, code, requestId)
        [] statusCode \in {429, 503} -> RateLimitError(message, code, requestId, retryAfter)
        [] OTHER ->
             IF statusCode >= 500
               THEN ServerError(message, code, statusCode, requestId)
               ELSE MailBreezeError(message, code, Num(statusCode), requestId, details)

createErrorFromResponse(statusCode, body, requestId, retryAfter) ==
  LET message == Coalesce(body.message, "Unknown error")
      code == Coalesce(body.code, "UNKNOWN_ERROR")
      details == body.details
  IN  CASE statusCode = 400 -> ValidationError(message, code, requestId, details)
        [] statusCode = 401 -> AuthenticationError(message, code, requestId)
        [] statusCode = 404 -> NotFoundError(message, code, requestId)
        [] statusCode = 429 -> RateLimitError(message, code, requestId, retryAfter)
        [] OTHER ->
             IF statusCode >= 500
               THEN ServerError(message, code, statusCode, requestId)
               ELSE MailBreezeError(message, code, Num(statusCode), requestId, details)

(***************************************************************************)
(* The transport (global fetch) and what it can answer.                    *)
(***************************************************************************)
Statuses == {200, 204, 400, 401, 403, 404, 429, 500, 503}

\* values of the Retry-After response header
RetryAfterHeaders == {Null, <<"0">>, <<"6", "0">>, <<"x">>}

\* values of the X-Request-Id response header ("null": header not there)
RequestIdHeaders == {"null", "req_1"}

\* a Response whose headers have arrived
Responses ==
  [status : Statuses, retryAfter : RetryAfterHeaders, requestId : RequestIdHeaders]

NoResp == [status |-> 0, retryAfter |-> Null, requestId |-> "null"]

ErrorBody == [code |-> "E_CODE", message |-> "E message", details |-> "det_1"]

\* what response.json() gives: a rejection ("nonjson"), the JSON value null,
\* or an object with or without success / data / error
Bodies ==
  { [kind |-> "nonjson", success |-> FALSE, data |-> "undefined", error |-> NoBody],
    [kind |-> "null", success |-> FALSE, data |-> "undefined", error |-> NoBody],
    [kind |-> "object", success |-> TRUE, data |-> "data_1", error |-> NoBody],
    [kind |-> "object", success |-> FALSE, data |-> "undefined", error |-> ErrorBody],
    [kind |-> "object", success |-> FALSE, data |-> "undefined", error |-> NoBody] }

NonJson == [kind |-> "nonjson", success |-> FALSE, data |-> "undefined", error |-> NoBody]

\* messages of the errors fetch rejects with when the network fails
TransportMessages == {"fetch failed"}

\* response.ok
IsOk(status) == status >= 200 /\ status <= 299

(***************************************************************************)
(* Outcome of an attempt or of a call.                                     *)
(***************************************************************************)
Return(v) == [tag |-> "return", value |-> v, error |-> NoError]
Throw(e) == [tag |-> "throw", value |-> "undefined", error |-> e]
Pending == [tag |-> "pending", value |-> "undefined", error |-> NoError]

(***************************************************************************)
(* fetcher.ts: handleResponse                                              *)
(***************************************************************************)
\* response.headers.get("X-Request-Id") ?? undefined
RequestIdOf(resp) == IF resp.requestId = "null" THEN "undefined" ELSE resp.requestId

\* retryAfter ? Number.parseInt(retryAfter, 10) : undefined
RetryAfterSecondsOf(resp) ==
  IF TruthyStr(resp.retryAfter) THEN ParseInt(resp.retryAfter) ELSE Undef

\* variant: the envelope is returned instead of its data
unwrapNothing(body) == "envelope"

\* (body as ApiSuccessResponse<T>).data
unwrap(body) == body.data

\* variant: a success:false envelope is classified by the raw status, 2xx or not
handleResponseNoDefault400(resp, body) ==
  LET requestId == RequestIdOf(resp)
      retryAfterSeconds == RetryAfterSecondsOf(resp)
  IN  CASE body.kind = "nonjson" ->
             IF ~IsOk(resp.status)
               THEN Throw(createErrorFromResponse(resp.status, NoBody, requestId, Undef))
               ELSE Return("undefined")
        [] body.kind = "null" ->
             \* body.success on null
             Throw(NativeError("TypeError", "Cannot read properties of null"))
        [] OTHER ->
             IF ~body.success
               THEN LET statusCode == resp.status
                    IN  Throw(createErrorFromResponse(statusCode, body.error, requestId,
                                                      retryAfterSeconds))
               ELSE IF ~IsOk(resp.status)
                      THEN Throw(createErrorFromResponse(resp.status, NoBody, requestId,
                                                         retryAfterSeconds))
                      ELSE Return(unwrap(body))

\* variant: a success:true envelope is unwrapped whatever the status
handleResponseTrustsSuccess(resp, body) ==
  LET requestId == RequestIdOf(resp)
      retryAfterSeconds == RetryAfterSecondsOf(resp)
  IN  CASE body.kind = "nonjson" ->
             IF ~IsOk(resp.status)
               THEN Throw(createErrorFromResponse(resp.status, NoBody, requestId, Undef))
               ELSE Return("undefined")
        [] body.kind = "null" ->
             \* body.success on null
             Throw(NativeError("TypeError", "Cannot read properties of null"))
        [] OTHER ->
             IF ~body.success
               THEN LET statusCode == IF IsOk(resp.status) THEN 400 ELSE resp.status
                    IN  Throw(createErrorFromResponse(statusCode, body.error, requestId,
                                                      retryAfterSeconds))
               ELSE IF FALSE
                      THEN Throw(createErrorFromResponse(resp.status, NoBody, requestId,
                                                         retryAfterSeconds))
                      ELSE Return(unwrap(body))

\* variant: the error of a body that is not JSON carries no requestId
handleResponseParseFailureNoRequestId(resp, body) ==
  LET requestId == RequestIdOf(resp)
      retryAfterSeconds == RetryAfterSecondsOf(resp)
  IN  CASE body.kind = "nonjson" ->
             IF ~IsOk(resp.status)
               THEN Throw(createErrorFromResponse(resp.status, NoBody, "undefined", Undef))
               ELSE Return("undefined")
        [] body.kind = "null" ->
             \* body.success on null
             Throw(NativeError("TypeError", "Cannot read properties of null"))
        [] OTHER ->
             IF ~body.success
               THEN LET statusCode == IF IsOk(resp.status) THEN 400 ELSE resp.status
                    IN  Throw(createErrorFromResponse(statusCode, body.error, requestId,
                                                      retryAfterSeconds))
               ELSE IF ~IsOk(resp.status)
                      THEN Throw(createErrorFromResponse(resp.status, NoBody, requestId,
                                                         retryAfterSeconds))
                      ELSE Return(unwrap(body))

\* handleResponse on a response whose status is not 204, once response.json()
\* has settled with body
handleResponse(resp, body) ==
  LET requestId == RequestIdOf(resp)
      retryAfterSeconds == RetryAfterSecondsOf(resp)
  IN  CASE body.kind = "nonjson" ->
             IF ~IsOk(resp.status)
               THEN Throw(createErrorFromResponse(resp.status, NoBody, requestId, Undef))
               ELSE Return("undefined")
        [] body.kind = "null" ->
             \* body.success on null
             Throw(NativeError("TypeError", "Cannot read properties of null"))
        [] OTHER ->
             IF ~body.success
               THEN LET statusCode == IF IsOk(resp.status) THEN 400 ELSE resp.status
                    IN  Throw(createErrorFromResponse(statusCode, body.error, requestId,
                                                      retryAfterSeconds))
               ELSE IF ~IsOk(resp.status)
                      THEN Throw(createErrorFromResponse(resp.status, NoBody, requestId,
                                                         retryAfterSeconds))
                      ELSE Return(unwrap(body))

(***************************************************************************)
(* fetcher.ts: executeRequest, the catch block                             *)
(***************************************************************************)
\* variant: the abort of the timer is not told apart from a network failure
executeRequestCatchNoAbortCase(error) ==
  IF IsErrorObject(error) /\ ~IsMailBreezeError(error)
    THEN ServerError("Network error: " \o error.message, "NETWORK_ERROR", 0, "undefined")
    ELSE error

\* variant: the timeout is built as a ServerError, like the network failure
executeRequestCatchTimeoutAsServer(error) ==
  IF IsErrorObject(error) /\ error.name = "AbortError"
    THEN ServerError("Request timeout", "TIMEOUT_ERROR", 0, "undefined")
    ELSE IF IsErrorObject(error) /\ ~IsMailBreezeError(error)
           THEN ServerError("Network error: " \o error.message, "NETWORK_ERROR", 0,
                            "undefined")
           ELSE error

executeRequestCatch(error) ==
  IF IsErrorObject(error) /\ error.name = "AbortError"
    THEN MailBreezeError("Request timeout", "TIMEOUT_ERROR", Num(0), "undefined", "undefined")
    ELSE IF IsErrorObject(error) /\ ~IsMailBreezeError(error)
           THEN ServerError("Network error: " \o error.message, "NETWORK_ERROR", 0,
                            "undefined")
           ELSE error

\* what executeRequest gives for what its try block gave
executeRequestOutcome(out) ==
  IF out.tag = "throw" THEN Throw(executeRequestCatch(out.error)) ELSE out

(***************************************************************************)
(* fetcher.ts: isRetryable, getRetryDelay, and the loop bounds of request  *)
(***************************************************************************)
\* variant: the 5xx test starts above 500
isRetryableAbove500(error, originalError) ==
  IF IsErrorObject(originalError) /\ originalError.name = "AbortError"
    THEN FALSE
    ELSE IF error.statusCode = Num(429)
              \/ (error.statusCode.tag = "number" /\ error.statusCode.n > 500)
           THEN TRUE
           ELSE error.statusCode = Num(0) /\ error.code = "NETWORK_ERROR"

\* variant: every status from 400 on is retried
isRetryableFrom400(error, originalError) ==
  IF IsErrorObject(originalError) /\ originalError.name = "AbortError"
    THEN FALSE
    ELSE IF error.statusCode = Num(429)
              \/ (error.statusCode.tag = "number" /\ error.statusCode.n >= 400)
           THEN TRUE
           ELSE error.statusCode = Num(0) /\ error.code = "NETWORK_ERROR"

\* variant: the test of a network failure is missing
isRetryableNoNetwork(error, originalError) ==
  IF IsErrorObject(originalError) /\ originalError.name = "AbortError"
    THEN FALSE
    ELSE error.statusCode = Num(429)
           \/ (error.statusCode.tag = "number" /\ error.statusCode.n >= 500)

isRetryable(error, originalError) ==
  IF IsErrorObject(originalError) /\ originalError.name = "AbortError"
    THEN FALSE
    ELSE IF error.statusCode = Num(429)
              \/ (error.statusCode.tag = "number" /\ error.statusCode.n >= 500)
           THEN TRUE
           ELSE error.statusCode = Num(0) /\ error.code = "NETWORK_ERROR"

\* variant: the exponent is the attempt number
getRetryDelayExponentOff(error, attempt) ==
  IF error.name = "RateLimitError" /\ TruthyNum(error.retryAfter)
    THEN error.retryAfter.n * 1000
    ELSE 2 ^ attempt * 1000

getRetryDelay(error, attempt) ==
  IF error.name = "RateLimitError" /\ TruthyNum(error.retryAfter)
    THEN error.retryAfter.n * 1000
    ELSE 2 ^ (attempt - 1) * 1000

\* variant: one attempt too many
maxAttemptsOffByOne(cfg) == cfg.maxRetries + 2

\* variant: the first attempt is counted as a retry
maxAttemptsRetriesOnly(cfg) == cfg.maxRetries

\* const maxAttempts = this.config.maxRetries + 1
maxAttemptsOf(cfg) == cfg.maxRetries + 1

\* variant: the first error of the call is kept
recordErrorKeepFirst(previous, error) == IF previous = NoError THEN error ELSE previous

\* lastError = error as MailBreezeError
recordError(previous, error) == error

(***************************************************************************)
(* fetcher.ts: buildHeaders.  Headers are functions from header names to   *)
(* values; the idempotency key is a sequence of characters.                *)
(***************************************************************************)
SDK_VERSION == "0.1.0"

\* the headers every request starts from
BaseHeaders ==
  ("Content-Type" :> "application/json") @@ ("User-Agent" :> "mailbreeze-js/" \o SDK_VERSION)

\* variant: the key is sent under both header names when the style is bearer
AuthHeadersBoth(cfg) ==
  IF cfg.authStyle = "bearer"
    THEN ("Authorization" :> "Bearer " \o cfg.apiKey) @@ ("X-API-Key" :> cfg.apiKey)
    ELSE ("X-API-Key" :> cfg.apiKey)

\* if (this.config.authStyle === "bearer") ... else ...
AuthHeaders(cfg) ==
  IF cfg.authStyle = "bearer"
    THEN ("Authorization" :> "Bearer " \o cfg.apiKey)
    ELSE ("X-API-Key" :> cfg.apiKey)

\* variant: only the line feed is looked for
HasLF(key) == \E i \in 1..Len(key) : key[i] = "\n"

\* /[\r\n]/.test(idempotencyKey)
HasCRLF(key) == \E i \in 1..Len(key) : key[i] \in {"\r", "\n"}

buildHeaders(cfg, idempotencyKey) ==
  IF TruthyStr(idempotencyKey) /\ HasCRLF(idempotencyKey)
    THEN [tag |-> "throw",
          error |-> MailBreezeError("Invalid idempotency key: contains invalid characters",
                                    "INVALID_IDEMPOTENCY_KEY", Undef, "undefined",
                                    "undefined"),
          headers |-> <<>>]
    ELSE [tag |-> "return", error |-> NoError,
          headers |-> IF TruthyStr(idempotencyKey)
                        THEN ("X-Idempotency-Key" :> idempotencyKey)
                               @@ AuthHeaders(cfg) @@ BaseHeaders
                        ELSE AuthHeaders(cfg) @@ BaseHeaders]

(***************************************************************************)
(* fetcher.ts: executeRequest, the options given to fetch                  *)
(***************************************************************************)
\* JSON.stringify of the request bodies of the model
JSONstringify(body) ==
  CASE body = "obj_empty" -> "{}"
    [] body = "obj_a1" -> "{\"a\":1}"

\* a request body that is not undefined (or null): objects are truthy
TruthyBody(body) == body \notin {"undefined", "null"}

\* variant: only GET requests are sent without their body
fetchOptionsOfBodyOnHead(method, hdrs, body) ==
  IF TruthyBody(body) /\ method # "GET"
    THEN [method |-> method, headers |-> hdrs, signal |-> "controller.signal",
          body |-> JSONstringify(body)]
    ELSE [method |-> method, headers |-> hdrs, signal |-> "controller.signal"]

\* fetchOptions, with body when body && method !== "GET" && method !== "HEAD"
fetchOptionsOf(method, hdrs, body) ==
  IF TruthyBody(body) /\ method # "GET" /\ method # "HEAD"
    THEN [method |-> method, headers |-> hdrs, signal |-> "controller.signal",
          body |-> JSONstringify(body)]
    ELSE [method |-> method, headers |-> hdrs, signal |-> "controller.signal"]

(***************************************************************************)
(* fetcher.ts: the constructor's baseUrl and buildUrl.                     *)
(* A URL is its origin followed by a sequence of pieces, each a slash or a *)
(* name without slash; the base URL is given by the pieces after its       *)
(* origin, the path by its pieces.                                         *)
(***************************************************************************)
Origin == "https://api.example.com"

\* longest base URL (after the origin) and longest path, in pieces
MaxBaseLen == 3
MaxPathLen == 3

Pieces(names, n) == UNION {[1..k -> {"/"} \cup names] : k \in 0..n}

\* base URLs: the origin alone, or the origin and pieces starting with a slash
BaseUrls == {b \in Pieces({"v1"}, MaxBaseLen) : b = <<>> \/ b[1] = "/"}

Paths == Pieces({"emails"}, MaxPathLen)

RECURSIVE Concat(_)
Concat(pieces) == IF pieces = <<>> THEN "" ELSE Head(pieces) \o Concat(Tail(pieces))

\* config.baseUrl.replace(/\/$/, ""): one slash at the end is removed
constructorBaseUrl(baseUrl) ==
  IF baseUrl # <<>> /\ baseUrl[Len(baseUrl)] = "/"
    THEN SubSeq(baseUrl, 1, Len(baseUrl) - 1)
    ELSE baseUrl

\* variant: a slash is put before every path
normalizedPathAlways(path) == <<"/">> \o path

\* path.startsWith("/") ? path : `/${path}`
normalizedPath(path) == IF path # <<>> /\ path[1] = "/" THEN path ELSE <<"/">> \o path

\* a query value: a number, a boolean, a string (its characters), undefined or null
QueryNumber(n) == [type |-> "number", n |-> n]
QueryBoolean(b) == [type |-> "boolean", b |-> b]
QueryString(chars) == [type |-> "string", chars |-> chars]
QueryUndefined == [type |-> "undefined"]
QueryNull == [type |-> "null"]

QueryValues ==
  {QueryNumber(0), QueryNumber(10), QueryBoolean(FALSE), QueryString(<<>>),
   QueryString(<<"s", "e", "n", "t">>), QueryString(<<"a", " ", "b">>),
   QueryUndefined, QueryNull}

\* property names; "2" and "10" are integer indices
QueryKeys == {"page", "status", "2", "10"}

\* the integer a property name denotes when it is an integer index, else -1
IndexOfKey(k) == IF k = "2" THEN 2 ELSE IF k = "10" THEN 10 ELSE -1

\* most entries of a query object
MaxQueryLen == 2

\* query?: Record<string, unknown>: its entries in the order they were created,
\* each property name once
QueryEntries ==
  {q \in UNION {[1..n -> [key : QueryKeys, value : QueryValues]] : n \in 0..MaxQueryLen} :
     \A i, j \in 1..Len(q) : i # j => q[i].key # q[j].key}

QueryObjects == [passed : {TRUE}, entries : QueryEntries]

\* query not passed
NoQuery == [passed |-> FALSE, entries |-> <<>>]

RECURSIVE AscendingIndices(_)
AscendingIndices(entries) ==
  IF entries = {} THEN <<>>
  ELSE LET first == CHOOSE e \in entries :
                      \A f \in entries : IndexOfKey(e.key) <= IndexOfKey(f.key)
       IN <<first>> \o AscendingIndices(entries \ {first})

\* Object.entries(query): the integer-index properties in ascending order, then
\* the other properties in the order they were created
ObjectEntries(query) ==
  LET entries == query.entries
  IN AscendingIndices({entries[i] : i \in {j \in 1..Len(entries) :
                                               IndexOfKey(entries[j].key) >= 0}})
       \o SelectSeq(entries, LAMBDA e : IndexOfKey(e.key) < 0)

DigitChar(d) ==
  CASE d = 0 -> "0" [] d = 1 -> "1" [] d = 2 -> "2" [] d = 3 -> "3" [] d = 4 -> "4"
    [] d = 5 -> "5" [] d = 6 -> "6" [] d = 7 -> "7" [] d = 8 -> "8" [] d = 9 -> "9"

RECURSIVE NumberToChars(_)
NumberToChars(n) ==
  IF n < 10 THEN <<DigitChar(n)>> ELSE NumberToChars(n \div 10) \o <<DigitChar(n % 10)>>

\* String(value), as characters
StringOf(value) ==
  CASE value.type = "number" -> NumberToChars(value.n)
    [] value.type = "boolean" -> IF value.b THEN <<"t", "r", "u", "e">>
                                 ELSE <<"f", "a", "l", "s", "e">>
    [] value.type = "string" -> value.chars

\* the application/x-www-form-urlencoded form of a letter, a digit or a space
FormEncode(c) == IF c = " " THEN "+" ELSE c

RECURSIVE Serialize(_)
Serialize(chars) ==
  IF chars = <<>> THEN "" ELSE FormEncode(Head(chars)) \o Serialize(Tail(chars))

\* variant: if (value) in place of the comparison with undefined and null
appendedWhenTruthy(value) ==
  /\ value.type \notin {"undefined", "null"}
  /\ value.type = "number" => value.n # 0
  /\ value.type = "boolean" => value.b
  /\ value.type = "string" => value.chars # <<>>

\* value !== undefined && value !== null
appended(value) == value.type # "undefined" /\ value.type # "null"

\* url.searchParams after the loop of buildUrl: the name and value pairs appended
RECURSIVE searchParams(_)
searchParams(entries) ==
  IF entries = <<>> THEN <<>>
  ELSE (IF appended(Head(entries).value)
          THEN <<[name |-> Head(entries).key, value |-> StringOf(Head(entries).value)]>>
          ELSE <<>>)
       \o searchParams(Tail(entries))

\* the serialization of the search parameters: name=value joined by "&"
RECURSIVE SerializeParams(_)
SerializeParams(params) ==
  IF params = <<>> THEN ""
  ELSE Head(params).name \o "=" \o Serialize(Head(params).value)
       \o (IF Len(params) > 1 THEN "&" ELSE "") \o SerializeParams(Tail(params))

\* new URL(...).toString() for an https URL: the origin, the path ("/" when it
\* is empty) and, when there are search parameters, "?" and their serialization
URLtoString(pieces, params) ==
  Origin \o (IF pieces = <<>> THEN "/" ELSE Concat(pieces))
         \o (IF params = <<>> THEN "" ELSE "?" \o SerializeParams(params))

\* buildUrl(path, query) of a Fetcher whose config.baseUrl is baseUrl
buildUrl(baseUrl, path, query) ==
  URLtoString(baseUrl \o normalizedPath(path),
              IF query.passed THEN searchParams(ObjectEntries(query)) ELSE <<>>)

(***************************************************************************)
(* Inputs: configurations and requests.                                    *)
(***************************************************************************)
\* config.timeout and options.timeout, in ms (0 and undefined: no timer)
ConfigTimeouts == {5000}
OptionTimeouts == {Undef, Num(0)}

Configs ==
  [maxRetries : -1..MaxRetries, timeout : ConfigTimeouts, baseUrl : {<<>>}, apiKey : {"sk_1"},
   authStyle : {"undefined"}]

Methods == {"GET", "POST"}

\* longest idempotency key with a CR or LF in it
MaxKeyLen == 2

KeyChars == {"k", "\r", "\n"}

\* keys that pass buildHeaders: none, or one harmless character
ValidKeys == {Undefined, <<"k">>}

\* keys of up to MaxKeyLen characters with a CR or an LF somewhere
InvalidKeys ==
  {key \in UNION {[1..n -> KeyChars] : n \in 1..MaxKeyLen} :
     \E i \in 1..Len(key) : key[i] # "k"}

Requests ==
  [method : Methods, idempotencyKey : ValidKeys \cup InvalidKeys, timeout : OptionTimeouts,
   body : {"undefined"},
   path : {<<"/", "emails">>}, query : {NoQuery}]

NoRequest ==
  [method |-> "GET", idempotencyKey |-> Undefined, timeout |-> Undef, body |-> "undefined",
   path |-> <<"/", "emails">>, query |-> NoQuery]

\* const timeout = options?.timeout ?? this.config.timeout
effectiveTimeout(cfg, r) == IF r.timeout = Undef THEN cfg.timeout ELSE r.timeout.n

RECURSIVE Sum(_)
Sum(seq) == IF seq = <<>> THEN 0 ELSE Head(seq) + Sum(Tail(seq))

(***************************************************************************)
(* State.                                                                  *)
(***************************************************************************)
VARIABLES
  config,      \* this.config of the Fetcher
  req,         \* arguments of the request call in progress (or of the last one)
  headers,     \* headers built for the call
  url,         \* const url of the call ("": not built)
  pc,          \* "idle", "fetching", "reading", "sleeping", "returned", "thrown"
  attempt,     \* let attempt
  lastError,   \* let lastError (NoError: undefined)
  fetchCalls,  \* number of times the call has invoked fetch
  fetchAt,     \* for each fetch of the call, the total of the sleeps before it
  sleeps,      \* the delays the call has slept, in order
  timer,       \* timeoutId of the attempt: "none", "armed", "fired", "cleared"
  aborted,     \* controller.signal.aborted of the attempt
  resp,        \* the Response of the attempt, once fetch has resolved
  last,        \* how the attempt that ended last ended, reset when the next starts
  outcome,     \* what the call returned or threw
  direct,      \* a direct call of an exported function: its arguments and result
  timerDelay,  \* the delay the attempt's timer was created with (0: no timer)
  fetchOptions,\* the options of the latest call of fetch
  parked,      \* the locals of a second request call on the same Fetcher
  history      \* how each attempt of the call ended, in order, when it is recorded

vars == <<config, req, headers, url, pc, attempt, lastError, fetchCalls, fetchAt, sleeps,
          timer, aborted, resp, last, outcome, direct, timerDelay, fetchOptions, parked,
          history>>

\* no exported function has been called directly
NoDirect == [fn |-> "none"]

\* fetch has not been called
NoFetchOptions == [method |-> "none"]

\* there is no second call
NoParked == [pc |-> "none"]

\* record of how an attempt ended
NoLast == [kind |-> "none", resp |-> NoResp, body |-> NonJson, message |-> "undefined"]

\* the history of a call whose attempts are not recorded
HistoryOff == <<NoLast>>
Ended(kind, r, body, message) ==
  [kind |-> kind, resp |-> r, body |-> body, message |-> message]

Init ==
  /\ config \in Configs
  /\ req = NoRequest
  /\ headers = <<>>
  /\ url = ""
  /\ pc = "idle"
  /\ attempt = 0
  /\ lastError = NoError
  /\ fetchCalls = 0
  /\ fetchAt = <<>>
  /\ sleeps = <<>>
  /\ timer = "none"
  /\ aborted = FALSE
  /\ resp = NoResp
  /\ last = NoLast
  /\ outcome = Pending
  /\ timerDelay = 0
  /\ fetchOptions = NoFetchOptions
  /\ parked = NoParked
  /\ history = HistoryOff
  /\ direct = NoDirect

(***************************************************************************)
(* executeRequest up to the call of fetch: a new AbortController, the      *)
(* timer when the timeout is truthy, then fetch(url, fetchOptions).        *)
(***************************************************************************)
\* variant: the attempts after the first are sent without X-Idempotency-Key
StartAttemptKeyOnce(cfg, r, hdrs, n, calls, at, slept) ==
  /\ attempt' = n
  /\ timer' = IF effectiveTimeout(cfg, r) # 0 THEN "armed" ELSE "none"
  /\ timerDelay' = IF effectiveTimeout(cfg, r) # 0 THEN effectiveTimeout(cfg, r) ELSE 0
  /\ fetchOptions' = fetchOptionsOf(r.method,
                                    IF n > 1 THEN AuthHeaders(cfg) @@ BaseHeaders ELSE hdrs,
                                    r.body)
  /\ aborted' = FALSE
  /\ fetchCalls' = calls + 1
  /\ fetchAt' = Append(at, Sum(slept))
  /\ resp' = NoResp
  /\ last' = NoLast
  /\ pc' = "fetching"

StartAttempt(cfg, r, hdrs, n, calls, at, slept) ==
  /\ attempt' = n
  /\ timer' = IF effectiveTimeout(cfg, r) # 0 THEN "armed" ELSE "none"
  /\ timerDelay' = IF effectiveTimeout(cfg, r) # 0 THEN effectiveTimeout(cfg, r) ELSE 0
  /\ fetchOptions' = fetchOptionsOf(r.method, hdrs, r.body)
  /\ aborted' = FALSE
  /\ fetchCalls' = calls + 1
  /\ fetchAt' = Append(at, Sum(slept))
  /\ resp' = NoResp
  /\ last' = NoLast
  /\ pc' = "fetching"

(***************************************************************************)
(* request, from the settling of executeRequest on: the finally block of   *)
(* executeRequest (clearTimeout), then return, or the catch block of the   *)
(* loop.  out is what the try block of executeRequest gave.                *)
(***************************************************************************)
\* variant: the finally block does not clear the timer
clearTimeoutNever(t) == t

\* if (timeoutId !== undefined) clearTimeout(timeoutId)
clearTimeout(t) == IF t = "armed" THEN "cleared" ELSE t

\* variant: the delay is slept before the test of the retries left
EndAttemptSleepsFirst(out, timerFired, how) ==
  LET res == executeRequestOutcome(out)
      err == recordError(lastError, res.error)
  IN  /\ timer' = IF timerFired THEN "fired" ELSE clearTimeout(timer)
      /\ aborted' = timerFired
      /\ last' = how
      /\ resp' = NoResp
      /\ history' = IF history = HistoryOff THEN history ELSE Append(history, how)
      /\ UNCHANGED <<config, req, headers, url, attempt, fetchCalls, fetchAt, direct,
                     timerDelay, fetchOptions, parked>>
      /\ IF res.tag = "return"
           THEN /\ pc' = "returned"
                /\ outcome' = res
                /\ UNCHANGED <<lastError, sleeps>>
           ELSE /\ lastError' = err
                /\ IF ~isRetryable(err, res.error) \/ attempt >= maxAttemptsOf(config)
                     THEN /\ pc' = "thrown"
                          /\ outcome' = Throw(err)
                          /\ sleeps' = IF isRetryable(err, res.error)
                                         THEN Append(sleeps, getRetryDelay(err, attempt))
                                         ELSE sleeps
                     ELSE /\ pc' = "sleeping"
                          /\ sleeps' = Append(sleeps, getRetryDelay(err, attempt))
                          /\ UNCHANGED outcome

EndAttempt(out, timerFired, how) ==
  LET res == executeRequestOutcome(out)
      err == recordError(lastError, res.error)
  IN  /\ timer' = IF timerFired THEN "fired" ELSE clearTimeout(timer)
      /\ aborted' = timerFired
      /\ last' = how
      /\ resp' = NoResp
      /\ history' = IF history = HistoryOff THEN history ELSE Append(history, how)
      /\ UNCHANGED <<config, req, headers, url, attempt, fetchCalls, fetchAt, direct,
                     timerDelay, fetchOptions, parked>>
      /\ IF res.tag = "return"
           THEN /\ pc' = "returned"
                /\ outcome' = res
                /\ UNCHANGED <<lastError, sleeps>>
           ELSE /\ lastError' = err
                /\ IF ~isRetryable(err, res.error) \/ attempt >= maxAttemptsOf(config)
                     THEN /\ pc' = "thrown"
                          /\ outcome' = Throw(err)
                          /\ UNCHANGED sleeps
                     ELSE /\ pc' = "sleeping"
                          /\ sleeps' = Append(sleeps, getRetryDelay(err, attempt))
                          /\ UNCHANGED outcome

(***************************************************************************)
(* Actions.                                                                *)
(***************************************************************************)
\* variant: the timeout of the call is stored as the default
configAfterRequestKeepsTimeout(cfg, r) == [cfg EXCEPT !.timeout = effectiveTimeout(cfg, r)]

\* this.config once request has run: request only reads it (private readonly
\* config; timeout and maxAttempts are locals)
configAfterRequest(cfg, r) == cfg

\* request(method, path, body, query, options) up to the first await
Request(r) ==
  /\ pc = "idle"
  /\ req' = r
  /\ url' = buildUrl(config.baseUrl, r.path, r.query)
  /\ lastError' = NoError
  /\ config' = configAfterRequest(config, r)
  /\ UNCHANGED <<direct, parked, history>>
  /\ LET h == buildHeaders(config, r.idempotencyKey)
     IN  IF h.tag = "throw"
           THEN /\ pc' = "thrown"
                /\ outcome' = Throw(h.error)
                /\ headers' = <<>>
                /\ timerDelay' = 0 /\ fetchOptions' = NoFetchOptions
                /\ attempt' = 0 /\ fetchCalls' = 0 /\ fetchAt' = <<>> /\ sleeps' = <<>>
                /\ timer' = "none" /\ aborted' = FALSE /\ resp' = NoResp /\ last' = NoLast
           ELSE /\ headers' = h.headers
                /\ sleeps' = <<>>
                /\ IF 0 < maxAttemptsOf(config)
                     THEN /\ StartAttempt(config, r, h.headers, 1, 0, <<>>, <<>>)
                          /\ outcome' = Pending
                     ELSE /\ pc' = "thrown"
                          /\ timerDelay' = 0 /\ fetchOptions' = NoFetchOptions
                          /\ outcome' = Throw(MailBreezeError("Unexpected error during request",
                                                "UNEXPECTED_ERROR", Undef, "undefined",
                                                "undefined"))
                          /\ attempt' = 0 /\ fetchCalls' = 0 /\ fetchAt' = <<>>
                          /\ timer' = "none" /\ aborted' = FALSE /\ resp' = NoResp
                          /\ last' = NoLast

\* variant: the test of status 204 is missing
NoContentNever(status) == FALSE

\* response.status === 204
NoContent(status) == status = 204

\* fetch resolves with a Response; handleResponse runs up to response.json(),
\* or to its end when the status is 204
FetchResolve(r) ==
  /\ pc = "fetching"
  /\ IF NoContent(r.status)
       THEN EndAttempt(Return("undefined"), FALSE, Ended("response", r, NonJson, "undefined"))
       ELSE /\ pc' = "reading"
            /\ resp' = r
            /\ UNCHANGED <<config, req, headers, url, attempt, lastError, fetchCalls, fetchAt,
                           sleeps, timer, aborted, last, outcome, direct, timerDelay,
                           fetchOptions, parked, history>>

\* response.json() settles; the rest of handleResponse runs
BodyArrives(body) ==
  /\ pc = "reading"
  /\ EndAttempt(handleResponse(resp, body), FALSE, Ended("response", resp, body, "undefined"))

\* fetch rejects because the network failed
FetchReject(message) ==
  /\ pc = "fetching"
  /\ EndAttempt(Throw(NativeError("TypeError", message)), FALSE,
                Ended("reject", NoResp, NonJson, message))

\* fetch rejects with a value that is not an Error
FetchRejectRaw ==
  /\ pc = "fetching"
  /\ EndAttempt(Throw(NonError), FALSE, Ended("rejectRaw", NoResp, NonJson, "undefined"))

\* the timeout elapses: the timer callback calls controller.abort(); a pending
\* fetch rejects with AbortError, a pending response.json() rejects, and when
\* nothing is pending the signal is raised and nothing else happens
TimerFire ==
  /\ timer = "armed"
  /\ IF pc = "fetching"
       THEN EndAttempt(Throw(NativeError("AbortError", "This operation was aborted")), TRUE,
                       Ended("abortFetch", NoResp, NonJson, "undefined"))
       ELSE IF pc = "reading"
              THEN EndAttempt(handleResponse(resp, NonJson), TRUE,
                              Ended("abortRead", resp, NonJson, "undefined"))
              ELSE /\ timer' = "fired"
                   /\ aborted' = TRUE
                   /\ UNCHANGED <<config, req, headers, url, pc, attempt, lastError, fetchCalls,
                                  fetchAt, sleeps, resp, last, outcome, direct, timerDelay,
                                  fetchOptions, parked, history>>

\* variant: the promise of sleep is never resolved
SleepElapsesNever ==
  /\ pc = "sleeping"
  /\ FALSE
  /\ UNCHANGED vars

\* variant: the next attempt does not wait for the pending one to settle
SleepElapsesEarly ==
  /\ pc \in {"sleeping", "fetching"}
  /\ UNCHANGED <<config, req, headers, url, lastError, sleeps, direct, parked, history>>
  /\ IF attempt < maxAttemptsOf(config)
       THEN /\ StartAttempt(config, req, headers, attempt + 1, fetchCalls, fetchAt, sleeps)
            /\ UNCHANGED outcome
       ELSE /\ pc' = "thrown"
            /\ outcome' = Throw(lastError)
            /\ UNCHANGED <<attempt, fetchCalls, fetchAt, timer, aborted, resp, last,
                           timerDelay, fetchOptions>>

\* the backoff sleep ends: the loop condition, then the next attempt
SleepElapses ==
  /\ pc = "sleeping"
  /\ UNCHANGED <<config, req, headers, url, lastError, sleeps, direct, parked, history>>
  /\ IF attempt < maxAttemptsOf(config)
       THEN /\ StartAttempt(config, req, headers, attempt + 1, fetchCalls, fetchAt, sleeps)
            /\ UNCHANGED outcome
       ELSE /\ pc' = "thrown"
            /\ outcome' = Throw(lastError)
            /\ UNCHANGED <<attempt, fetchCalls, fetchAt, timer, aborted, resp, last,
                           timerDelay, fetchOptions>>

Next ==
  \/ \E r \in Requests : Request(r)
  \/ \E r \in Responses : FetchResolve(r)
  \/ \E body \in Bodies : BodyArrives(body)
  \/ \E message \in TransportMessages : FetchReject(message)
  \/ FetchRejectRaw
  \/ TimerFire
  \/ SleepElapses

Spec == Init /\ [][Next]_vars

(***************************************************************************)
(* Vocabulary of the properties.                                           *)
(***************************************************************************)
\* a step in which an attempt ends in a failure
AttemptFails == pc \in {"fetching", "reading"} /\ pc' \in {"sleeping", "thrown"}

\* a step in which the call goes to sleep before a retry
RetryStarts == pc \in {"fetching", "reading"} /\ pc' = "sleeping"

\* the call has ended: nothing changes any more
Finished == pc \in {"returned", "thrown"}

\* the retryability predicate as the specification words it; how is the way
\* the attempt ended (a timeout is a fetch aborted by the timer)
RetryableFailure(e, how) ==
  /\ how.kind # "abortFetch"
  /\ \/ e.statusCode = Num(429)
     \/ (e.statusCode.tag = "number" /\ e.statusCode.n >= 500)
     \/ (e.statusCode = Num(0) /\ e.code = "NETWORK_ERROR")

\* a 4xx status other than 429
TerminalClientStatus(e) ==
  /\ e.statusCode.tag = "number"
  /\ e.statusCode.n >= 400 /\ e.statusCode.n <= 499
  /\ e.statusCode.n # 429

(***************************************************************************)
(* C1: a request call never makes more than maxRetries + 1 calls of fetch. *)
(***************************************************************************)
C1_AtMostMaxRetriesPlusOneCalls == fetchCalls <= config.maxRetries + 1

\* a call that used all its attempts, with at least two retries
C1_Witness ==
  pc = "thrown" /\ config.maxRetries >= 2 /\ fetchCalls = config.maxRetries + 1

C3_ClientErrorsAreTerminal ==
  /\ [][(AttemptFails /\ TerminalClientStatus(lastError')) =>
          /\ pc' = "thrown"
          /\ outcome' = Throw(lastError')
          /\ sleeps' = sleeps
          /\ fetchCalls' = fetchCalls]_vars
  /\ [][(AttemptFails /\ last'.kind = "response" /\ IsOk(last'.resp.status)
           /\ last'.body.kind = "object" /\ ~last'.body.success) =>
          (lastError'.statusCode = Num(400) /\ pc' = "thrown")]_vars
  /\ []((pc = "thrown" /\ TerminalClientStatus(outcome.error) /\ attempt = 1) =>
          (fetchCalls = 1 /\ sleeps = <<>>))
  /\ [][Finished => (fetchCalls' = fetchCalls /\ sleeps' = sleeps)]_vars

\* success:false inside a 200 answer to the first attempt, with retries allowed
C3_Witness ==
  /\ pc = "thrown" /\ config.maxRetries = MaxRetries /\ fetchCalls = 1
  /\ last.kind = "response" /\ last.resp.status = 200
  /\ last.body.kind = "object" /\ ~last.body.success
  /\ outcome.error.name = "ValidationError"

ClassifiedAs(how) ==
  IF how.kind = "reject"
    THEN <<"ServerError", Num(0), "NETWORK_ERROR", "Network error: " \o how.message,
           "undefined">>
    ELSE IF how.body.kind = "null"
           THEN <<"ServerError", Num(0), "NETWORK_ERROR",
                  "Network error: Cannot read properties of null", "undefined">>
           ELSE <<IF how.resp.status = 429 THEN "RateLimitError" ELSE "ServerError",
                  Num(how.resp.status),
                  IF how.body.error.code = "undefined" THEN "UNKNOWN_ERROR"
                    ELSE how.body.error.code,
                  IF how.body.error.message = "undefined" THEN "Unknown error"
                    ELSE how.body.error.message,
                  IF how.resp.requestId = "null" THEN "undefined" ELSE how.resp.requestId>>

FiveFields(e) == <<e.name, e.statusCode, e.code, e.message, e.requestId>>

C5_ExhaustionThrowsLastError ==
  (pc = "thrown" /\ fetchCalls >= 1 /\ RetryableFailure(outcome.error, last)) =>
    /\ fetchCalls = config.maxRetries + 1
    /\ Len(sleeps) = config.maxRetries
    /\ outcome.tag = "throw"
    /\ FiveFields(outcome.error) = ClassifiedAs(last)

\* maxRetries = 2, the third answer is a 500 with a request id
C5_Witness ==
  /\ pc = "thrown" /\ config.maxRetries = 2 /\ fetchCalls = 3
  /\ last.kind = "response" /\ last.resp.status = 500 /\ last.resp.requestId = "req_1"
  /\ outcome.error.name = "ServerError" /\ outcome.error.requestId = "req_1"

(***************************************************************************)
(* C6: the call returns the payload of the first attempt that succeeds and *)
(* calls fetch no more; one retryable failure followed by a 200 makes      *)
(* exactly two calls of fetch and gives the payload of the 200.            *)
(***************************************************************************)
C6_FirstSuccessReturns ==
  /\ [][(pc \in {"fetching", "reading"} /\ last'.kind = "response"
           /\ IsOk(last'.resp.status) /\ last'.body.kind = "object" /\ last'.body.success) =>
          (pc' = "returned" /\ outcome' = Return(last'.body.data))]_vars
  /\ []((pc = "returned") =>
          (fetchCalls = attempt /\ fetchCalls = Len(sleeps) + 1 /\ outcome.tag = "return"))
  /\ []((pc = "returned" /\ Len(sleeps) = 1) => fetchCalls = 2)
  /\ [][pc = "returned" => (fetchCalls' = fetchCalls /\ outcome' = outcome)]_vars

\* a 500, one sleep, then a 200 carrying data
C6_Witness ==
  /\ pc = "returned" /\ fetchCalls = 2 /\ lastError.statusCode = Num(500)
  /\ last.resp.status = 200 /\ outcome = Return("data_1")

(***************************************************************************)
(* C7: a retry after failed attempt n whose error is not a RateLimit error *)
(* carrying retryAfter sleeps 2^(n-1) * 1000 ms; with maxRetries = 3 and   *)
(* only exponential sleeps the four calls of fetch happen after 0, 1000,   *)
(* 3000 and 7000 ms of sleep.                                              *)
(***************************************************************************)
C7_ExponentialBackoff ==
  /\ [][(RetryStarts
           /\ ~(lastError'.name = "RateLimitError" /\ lastError'.retryAfter # Undef)) =>
          sleeps' = Append(sleeps, 2 ^ (attempt - 1) * 1000)]_vars
  /\ [](\A i \in 1..Len(fetchAt) : fetchAt[i] = Sum(SubSeq(sleeps, 1, i - 1)))
  /\ []((pc = "thrown" /\ config.maxRetries = 3 /\ sleeps = <<1000, 2000, 4000>>) =>
          (fetchCalls = 4 /\ fetchAt = <<0, 1000, 3000, 7000>>))

\* maxRetries = 3, the call ends on a 500 after three exponential sleeps
C7_Witness ==
  /\ pc = "thrown" /\ config.maxRetries = 3 /\ outcome.error.statusCode = Num(500)
  /\ fetchCalls = 4 /\ fetchAt = <<0, 1000, 3000, 7000>>

(***************************************************************************)
(* C8: a retry after a 429 whose Retry-After header carries the            *)
(* non-negative integer N sleeps exactly N * 1000 ms, for every such N.    *)
(***************************************************************************)
\* the number of seconds a Retry-After header value stands for, -1 if none
HeaderSeconds(h) ==
  CASE h = <<"0">> -> 0
    [] h = <<"6", "0">> -> 60
    [] OTHER -> -1

C8_RetryAfterIsTheDelay ==
  [][(RetryStarts /\ last'.kind = "response" /\ last'.resp.status = 429
        /\ HeaderSeconds(last'.resp.retryAfter) >= 0) =>
       sleeps' = Append(sleeps, HeaderSeconds(last'.resp.retryAfter) * 1000)]_vars

(***************************************************************************)
(* C9: the error of a 429 response is a RateLimit error that carries       *)
(* retryAfter exactly when the Retry-After header is present and parses as *)
(* an integer, with the parsed value, whether or not the body parses as    *)
(* JSON; an error of any other kind never carries retryAfter.              *)
(***************************************************************************)
C9_RetryAfterAttachedIffParseable ==
  /\ (pc \in {"sleeping", "thrown"} /\ last.kind = "response" /\ last.resp.status = 429
        /\ last.body.kind # "null") =>
       /\ lastError.name = "RateLimitError"
       /\ (lastError.retryAfter # Undef) <=> (HeaderSeconds(last.resp.retryAfter) >= 0)
       /\ (HeaderSeconds(last.resp.retryAfter) >= 0) =>
            lastError.retryAfter = Num(HeaderSeconds(last.resp.retryAfter))
  /\ lastError.name # "RateLimitError" => lastError.retryAfter = Undef

(***************************************************************************)
(* C10: a request whose idempotency key contains a CR or LF fails with     *)
(* code INVALID_IDEMPOTENCY_KEY without any call of fetch and without any  *)
(* sleep, whatever the method, maxRetries and the place of the character.  *)
(***************************************************************************)
ContainsLineBreak(key) ==
  key # Undefined /\ \E i \in DOMAIN key : key[i] = "\r" \/ key[i] = "\n"

C10_BadIdempotencyKeyFailsLocally ==
  (pc # "idle" /\ ContainsLineBreak(req.idempotencyKey)) =>
    /\ pc = "thrown"
    /\ outcome.tag = "throw"
    /\ outcome.error.code = "INVALID_IDEMPOTENCY_KEY"
    /\ fetchCalls = 0
    /\ sleeps = <<>>
    /\ attempt = 0

\* a POST with a carriage return at the end of the key, retries allowed
C10_Witness ==
  /\ pc = "thrown" /\ req.method = "POST" /\ req.idempotencyKey = <<"k", "\r">>
  /\ config.maxRetries = MaxRetries /\ fetchCalls = 0
  /\ outcome.error.code = "INVALID_IDEMPOTENCY_KEY"

(***************************************************************************)
(* C11: the error thrown for an idempotency key containing CR or LF is of  *)
(* the Validation kind, the kind createErrorFromResponse gives for status  *)
(* 400.                                                                    *)
(***************************************************************************)
KindOfStatus400 == createErrorFromResponse(400, NoBody, "undefined", Undef).name

C11_BadKeyErrorIsValidation ==
  (pc = "thrown" /\ ContainsLineBreak(req.idempotencyKey)) =>
    outcome.error.name = KindOfStatus400

(***************************************************************************)
(* createErrorFromResponse called directly: the arguments are drawn from   *)
(* the sets below, the call builds the error.                              *)
(***************************************************************************)
ClassifyStatuses == {200, 302, 400, 401, 402, 403, 404, 418, 429, 499, 500, 502, 503, 599}

ClassifyBody(kind, code, message, details) ==
  [kind |-> kind, code |-> code, message |-> message, details |-> details]

\* the body argument: undefined, null, or an object carrying some of code,
\* message and details (the strings may be empty)
ClassifyBodies ==
  { ClassifyBody("undefined", "undefined", "undefined", "undefined"),
    ClassifyBody("null", "undefined", "undefined", "undefined"),
    ClassifyBody("object", "undefined", "undefined", "undefined"),
    ClassifyBody("object", "E_CODE", "undefined", "undefined"),
    ClassifyBody("object", "undefined", "E message", "undefined"),
    ClassifyBody("object", "E_CODE", "E message", "det_1"),
    ClassifyBody("object", "", "", "undefined"),
    ClassifyBody("object", "", "undefined", "undefined") }

ClassifyRequestIds == {"undefined", "req_1"}
ClassifyRetryAfters == {Undef, Num(0), Num(30)}

InitClassify ==
  /\ config = [maxRetries |-> MaxRetries, timeout |-> 5000, baseUrl |-> <<>>, apiKey |-> "sk_1",
               authStyle |-> "undefined"]
  /\ req = NoRequest
  /\ headers = <<>>
  /\ url = ""
  /\ pc = "idle"
  /\ attempt = 0
  /\ lastError = NoError
  /\ fetchCalls = 0
  /\ fetchAt = <<>>
  /\ sleeps = <<>>
  /\ timer = "none"
  /\ aborted = FALSE
  /\ resp = NoResp
  /\ last = NoLast
  /\ outcome = Pending
  /\ timerDelay = 0
  /\ fetchOptions = NoFetchOptions
  /\ parked = NoParked
  /\ history = HistoryOff
  /\ direct \in [fn : {"createErrorFromResponse"}, statusCode : ClassifyStatuses,
                  body : ClassifyBodies, requestId : ClassifyRequestIds,
                  retryAfter : ClassifyRetryAfters, done : {FALSE}, result : {NoError}]

\* createErrorFromResponse(statusCode, body, requestId, retryAfter) returns
Classify ==
  /\ direct.fn = "createErrorFromResponse"
  /\ ~direct.done
  /\ direct' = [direct EXCEPT
                  !.done = TRUE,
                  !.result = createErrorFromResponse(direct.statusCode,
                                                     OptionalChain(direct.body),
                                                     direct.requestId, direct.retryAfter)]
  /\ UNCHANGED <<config, req, headers, url, pc, attempt, lastError, fetchCalls, fetchAt,
                 sleeps, timer, aborted, resp, last, outcome, timerDelay, fetchOptions,
                 parked, history>>

NextClassify == Classify

SpecClassify == InitClassify /\ [][NextClassify]_vars

(***************************************************************************)
(* C12: for every status code and every body, undefined and null included, *)
(* createErrorFromResponse returns an error of the library whose kind is   *)
(* Validation for 400, Authentication for 401, NotFound for 404, RateLimit *)
(* for 429, Server from 500 up and Generic for anything else, and whose    *)
(* statusCode is the status code it was given.                             *)
(***************************************************************************)
KindOfStatus(statusCode) ==
  CASE statusCode = 400 -> "ValidationError"
    [] statusCode = 401 -> "AuthenticationError"
    [] statusCode = 404 -> "NotFoundError"
    [] statusCode = 429 -> "RateLimitError"
    [] statusCode >= 500 -> "ServerError"
    [] OTHER -> "MailBreezeError"

C12_KindAndStatusFollowTheStatusCode ==
  direct.done =>
    /\ IsMailBreezeError(direct.result)
    /\ direct.result.name = KindOfStatus(direct.statusCode)
    /\ direct.result.statusCode = Num(direct.statusCode)

\* status 500, the lowest Server status, with a null body
C12_Witness ==
  /\ direct.done /\ direct.statusCode = 500 /\ direct.body.kind = "null"
  /\ direct.result.name = "ServerError" /\ direct.result.statusCode = Num(500)

(***************************************************************************)
(* C13: for every status code the error createErrorFromResponse builds has *)
(* the message of the body when the body carries one, "Unknown error"      *)
(* otherwise, and the code of the body when the body carries one,          *)
(* "UNKNOWN_ERROR" otherwise; the default code of a class (SERVER_ERROR,   *)
(* NOT_FOUND, ...) is never used.                                          *)
(***************************************************************************)
Carries(body, field) == body.kind = "object" /\ body[field] # "undefined"

ClassDefaultCodes ==
  {"AUTHENTICATION_ERROR", "VALIDATION_ERROR", "NOT_FOUND", "RATE_LIMIT_EXCEEDED",
   "SERVER_ERROR"}

C13_MessageAndCodeFromBodyOrLiterals ==
  direct.done =>
    /\ direct.result.message =
         IF Carries(direct.body, "message") THEN direct.body.message ELSE "Unknown error"
    /\ direct.result.code =
         IF Carries(direct.body, "code") THEN direct.body.code ELSE "UNKNOWN_ERROR"
    /\ direct.result.code \notin ClassDefaultCodes

\* a 404 whose body carries an empty code and no message
C13_Witness ==
  /\ direct.done /\ direct.statusCode = 404
  /\ direct.body.kind = "object" /\ direct.body.code = ""
  /\ direct.body.message = "undefined"
  /\ direct.result.code = "" /\ direct.result.message = "Unknown error"

(***************************************************************************)
(* C14: for every status code, so for every class of error, the error      *)
(* built from a body has the details of the body when the body carries     *)
(* details, and no details otherwise.                                      *)
(***************************************************************************)
C14_DetailsFromBodyForEveryKind ==
  direct.done =>
    direct.result.details =
      IF Carries(direct.body, "details") THEN direct.body.details ELSE "undefined"

\* C14 as the code has it: the error keeps the details of the body when its
\* class is ValidationError (400) or the base MailBreezeError (a status below
\* 500 other than 400, 401, 404, 429); an AuthenticationError, NotFoundError,
\* RateLimitError or ServerError has no details whatever the body carries; an
\* error built from a body without details has none
KeepsDetails(name) == name \in {"ValidationError", "MailBreezeError"}

C14_DetailsKeptForValidationAndGeneric ==
  direct.done =>
    direct.result.details =
      IF Carries(direct.body, "details") /\ KeepsDetails(direct.result.name)
        THEN direct.body.details
        ELSE "undefined"

\* a 400 whose body carries details keeps them
C14_Witness ==
  /\ direct.done /\ direct.statusCode = 400 /\ direct.body.details = "det_1"
  /\ direct.result.name = "ValidationError" /\ direct.result.details = "det_1"

(***************************************************************************)
(* C15: a timeout (fetch aborted by the timer) is thrown as an error of    *)
(* the Server kind, the kind of a network failure, with statusCode 0, code *)
(* TIMEOUT_ERROR and message "Request timeout".                            *)
(***************************************************************************)
KindOfNetworkFailure == executeRequestCatch(NativeError("TypeError", "fetch failed")).name

TimeoutThrown == pc = "thrown" /\ last.kind = "abortFetch"

TimeoutFields(e) ==
  /\ e.statusCode = Num(0)
  /\ e.code = "TIMEOUT_ERROR"
  /\ e.message = "Request timeout"

NetworkFailure == pc = "fetching" /\ last'.kind = "reject"

C16_NetworkFailureIsServerErrorAndRetried ==
  /\ [][NetworkFailure =>
          /\ lastError'.name = "ServerError"
          /\ lastError'.statusCode = Num(0)
          /\ lastError'.code = "NETWORK_ERROR"
          /\ lastError'.message = "Network error: " \o last'.message
          /\ IF attempt < config.maxRetries + 1
               THEN pc' = "sleeping"
               ELSE pc' = "thrown" /\ outcome' = Throw(lastError')]_vars
  /\ [][(pc = "sleeping" /\ last.kind = "reject") =>
          (pc' = "fetching" /\ fetchCalls' = fetchCalls + 1)]_vars

\* the second fetch of a call, started after a network failure
C16_Witness ==
  /\ pc = "fetching" /\ attempt = 2 /\ fetchCalls = 2
  /\ lastError.name = "ServerError" /\ lastError.code = "NETWORK_ERROR"
  /\ lastError.message = "Network error: fetch failed"

(***************************************************************************)
(* Vocabulary of the claims on handleResponse.                             *)
(***************************************************************************)
\* the status is in the 2xx range
In2xx(status) == status >= 200 /\ status <= 299

\* the attempt that ended last got a response and response.json() gave body
\* an object (an envelope)
EnvelopeRead == last.kind = "response" /\ last.body.kind = "object"

\* the attempt that ended last got a response whose body could not be parsed
ParseFailed ==
  /\ last.kind \in {"response", "abortRead"}
  /\ last.body.kind = "nonjson"
  /\ last.resp.status # 204

\* the attempt that ended last failed: the call sleeps or has thrown
AttemptFailed == pc \in {"sleeping", "thrown"}

\* the X-Request-Id of the response, absent when the header is
RequestIdHeader(r) == IF r.requestId = "null" THEN "undefined" ELSE r.requestId

OrLiteral(field, literal) == IF field = "undefined" THEN literal ELSE field

(***************************************************************************)
(* C17: an envelope with success false always makes the attempt fail, with *)
(* the error of status 400 (Validation) when the HTTP status is 2xx and of *)
(* the HTTP status otherwise, built from the code, the message and the     *)
(* details of the envelope's error.                                        *)
(***************************************************************************)
EffectiveStatus(status) == IF In2xx(status) THEN 400 ELSE status

FailureEnvelope == EnvelopeRead /\ ~last.body.success

EnvelopeErrorButDetails ==
  /\ AttemptFailed
  /\ lastError.name = KindOfStatus(EffectiveStatus(last.resp.status))
  /\ lastError.statusCode = Num(EffectiveStatus(last.resp.status))
  /\ lastError.code = OrLiteral(last.body.error.code, "UNKNOWN_ERROR")
  /\ lastError.message = OrLiteral(last.body.error.message, "Unknown error")

C17_FailureEnvelopeWithAllItsFields ==
  FailureEnvelope =>
    /\ EnvelopeErrorButDetails
    /\ lastError.details = last.body.error.details

\* C17 as the code has it: the same, except that the details of the
\* envelope's error are kept only when the error is a ValidationError or a base
\* MailBreezeError; an AuthenticationError, NotFoundError, RateLimitError or
\* ServerError built from the envelope has no details
C17_FailureEnvelopeDetailsByKind ==
  FailureEnvelope =>
    /\ EnvelopeErrorButDetails
    /\ lastError.details =
         IF KeepsDetails(lastError.name) THEN last.body.error.details ELSE "undefined"

\* a 200 whose envelope says success false and carries an error with details
C17_Witness ==
  /\ FailureEnvelope /\ last.resp.status = 200 /\ last.body.error = ErrorBody
  /\ pc = "thrown" /\ fetchCalls = 1
  /\ outcome.error.name = "ValidationError" /\ outcome.error.statusCode = Num(400)
  /\ outcome.error.details = "det_1"

(***************************************************************************)
(* C18: an envelope with success true on a response whose status is not    *)
(* 2xx makes the attempt fail with the error of that status; the call      *)
(* never returns after an attempt whose status is outside 2xx.             *)
(***************************************************************************)
C18_StatusOverridesSuccessFlag ==
  /\ (EnvelopeRead /\ last.body.success /\ ~In2xx(last.resp.status)) =>
       /\ AttemptFailed
       /\ lastError.name = KindOfStatus(last.resp.status)
       /\ lastError.statusCode = Num(last.resp.status)
  /\ pc = "returned" =>
       (last.kind \in {"response", "abortRead"} /\ In2xx(last.resp.status))

\* a 404 whose envelope says success true
C18_Witness ==
  /\ EnvelopeRead /\ last.body.success /\ last.body.data = "data_1"
  /\ last.resp.status = 404
  /\ pc = "thrown" /\ outcome.error.name = "NotFoundError"

(***************************************************************************)
(* C19: when response.json() fails, a response whose status is not ok      *)
(* makes the attempt fail with the error of the status alone (message      *)
(* "Unknown error", code "UNKNOWN_ERROR", no details, no retryAfter, the    *)
(* requestId of the response), and a response whose status is ok makes the *)
(* call return undefined.                                                  *)
(***************************************************************************)
C19_ParseFailureFollowsTheStatus ==
  ParseFailed =>
    IF In2xx(last.resp.status)
      THEN pc = "returned" /\ outcome = Return("undefined")
      ELSE /\ AttemptFailed
           /\ lastError.name = KindOfStatus(last.resp.status)
           /\ lastError.statusCode = Num(last.resp.status)
           /\ lastError.message = "Unknown error"
           /\ lastError.code = "UNKNOWN_ERROR"
           /\ lastError.details = "undefined"
           /\ lastError.retryAfter = Undef
           /\ lastError.requestId = RequestIdHeader(last.resp)

\* a 503 with a request id whose body is not JSON, retried, then a 200 whose
\* body is not JSON
C19_Witness ==
  /\ ParseFailed /\ last.kind = "response" /\ last.resp.status = 200
  /\ pc = "returned" /\ outcome = Return("undefined") /\ fetchCalls = 2
  /\ lastError.statusCode = Num(503) /\ lastError.code = "UNKNOWN_ERROR"
  /\ lastError.message = "Unknown error" /\ lastError.requestId = "req_1"

(***************************************************************************)
(* C20: a response of status 204 makes the call return undefined, whatever *)
(* its headers, and response.json() is never called on it: the call is     *)
(* never reading the body of a 204, and no body was read when the attempt  *)
(* ended.                                                                   *)
(***************************************************************************)
C20_NoContentReturnsWithoutParsing ==
  /\ pc = "reading" => resp.status # 204
  /\ (last.kind \in {"response", "abortRead"} /\ last.resp.status = 204) =>
       /\ pc = "returned"
       /\ outcome = Return("undefined")
       /\ last.kind = "response"
       /\ last.body = NonJson

\* a 204 carrying a Retry-After and a request id, after one retried failure
C20_Witness ==
  /\ pc = "returned" /\ last.resp.status = 204 /\ fetchCalls = 2
  /\ last.resp.retryAfter = <<"6", "0">> /\ last.resp.requestId = "req_1"
  /\ outcome = Return("undefined")

(***************************************************************************)
(* The same request call over a wider choice of configurations and         *)
(* arguments (timeouts, authStyle, methods, bodies) and a narrower choice  *)
(* of answers of the transport.                                            *)
(***************************************************************************)
\* largest maxRetries of these configurations
WireMaxRetries == 1

WireConfigs ==
  [maxRetries : 0..WireMaxRetries, timeout : {0, 5000}, baseUrl : {<<>>}, apiKey : {"sk_1"},
   authStyle : {"undefined", "header", "bearer"}]

WireRequests ==
  [method : {"GET", "HEAD", "POST"}, idempotencyKey : {Undefined, <<"k">>},
   timeout : {Undef, Num(0), Num(100)},
   body : {"undefined", "null", "obj_empty", "obj_a1"},
   path : {<<"/", "emails">>},
   query : {NoQuery,
            [passed |-> TRUE,
             entries |-> <<[key |-> "page", value |-> QueryNumber(10)],
                           [key |-> "status", value |-> QueryUndefined]>>]}]

WireResponses == [status : {200, 204, 404, 500}, retryAfter : {Null}, requestId : {"null"}]

WireBodies ==
  { NonJson,
    [kind |-> "object", success |-> TRUE, data |-> "data_1", error |-> NoBody] }

InitWire ==
  /\ config \in WireConfigs
  /\ req = NoRequest
  /\ headers = <<>>
  /\ url = ""
  /\ pc = "idle"
  /\ attempt = 0
  /\ lastError = NoError
  /\ fetchCalls = 0
  /\ fetchAt = <<>>
  /\ sleeps = <<>>
  /\ timer = "none"
  /\ aborted = FALSE
  /\ resp = NoResp
  /\ last = NoLast
  /\ outcome = Pending
  /\ direct = NoDirect
  /\ timerDelay = 0
  /\ fetchOptions = NoFetchOptions
  /\ parked = NoParked
  /\ history = HistoryOff

NextWire ==
  \/ \E r \in WireRequests : Request(r)
  \/ \E r \in WireResponses : FetchResolve(r)
  \/ \E body \in WireBodies : BodyArrives(body)
  \/ \E message \in TransportMessages : FetchReject(message)
  \/ FetchRejectRaw
  \/ TimerFire
  \/ SleepElapses

SpecWire == InitWire /\ [][NextWire]_vars

(***************************************************************************)
(* C21: every call of fetch is bounded by the effective timeout            *)
(* options.timeout ?? config.timeout, whatever its value: while fetch is   *)
(* pending a timer of that delay is armed, and when it fires the fetch is  *)
(* aborted and the attempt ends as a timeout; options.timeout, when given, *)
(* is the delay instead of config.timeout.                                 *)
(***************************************************************************)
TimeoutBound == IF req.timeout # Undef THEN req.timeout.n ELSE config.timeout

C21_EveryFetchIsBounded ==
  /\ [](pc = "fetching" => (timer = "armed" /\ timerDelay = TimeoutBound))
  /\ [][(pc = "fetching" /\ timer = "armed" /\ timer' = "fired") =>
          (aborted' /\ last'.kind = "abortFetch"
             /\ lastError'.code = "TIMEOUT_ERROR")]_vars

(***************************************************************************)
(* Vocabulary of the claims on timers and on the order of the attempts.    *)
(***************************************************************************)
\* the attempt is in progress: fetch or response.json() is pending
InAttempt == pc \in {"fetching", "reading"}

\* a step that ends the attempt in progress
AttemptEnds == InAttempt /\ pc' \notin {"fetching", "reading"}

(***************************************************************************)
(* C22: whichever way an attempt ends (payload, HTTP error, network        *)
(* failure, timeout) its timer is released by the step that ends it: an    *)
(* armed timer becomes cleared or has fired; and whenever the call sleeps, *)
(* has returned or has thrown, no timer of the call is armed.              *)
(***************************************************************************)
C22_TimerReleasedOnEveryExit ==
  /\ [][AttemptEnds => (timer' # "armed" /\ (timer = "armed" => timer' \in {"cleared", "fired"}))]_vars
  /\ [](~InAttempt => timer # "armed")

\* a network failure on the second attempt: the call has thrown, the timer of
\* that attempt was cleared
C22_Witness ==
  /\ pc = "thrown" /\ last.kind = "reject" /\ fetchCalls = 2
  /\ timer = "cleared" /\ timerDelay = 5000

(***************************************************************************)
(* C23: when an attempt got its response and handled it without the timer  *)
(* firing, the abort signal of that attempt is not raised, then or in any   *)
(* later state: the timer does not fire once the attempt has ended.         *)
(***************************************************************************)
C23_NoAbortAfterCompletion ==
  /\ [](last.kind = "response" => (~aborted /\ timer # "fired"))
  /\ [][(last.kind = "response" /\ last' = last) => (aborted' = aborted /\ timer' = timer)]_vars

\* a 200 handled under a per-call timeout of 100 ms
C23_Witness ==
  /\ pc = "returned" /\ last.kind = "response" /\ last.resp.status = 200
  /\ timerDelay = 100 /\ timer = "cleared" /\ ~aborted

(***************************************************************************)
(* C24: the attempts of a call are strictly sequential: fetch is called    *)
(* only when no attempt is in progress, one call at a time, and after the  *)
(* first call only from the sleep that follows the failure of the previous *)
(* attempt; every attempt in progress has been preceded by the sleeps of   *)
(* all the attempts before it.                                             *)
(***************************************************************************)
C24_AttemptsAreSequential ==
  /\ [][fetchCalls' # fetchCalls =>
          /\ fetchCalls' = fetchCalls + 1
          /\ ~InAttempt
          /\ pc' = "fetching"
          /\ fetchCalls > 0 =>
               /\ pc = "sleeping"
               /\ last.kind # "none"
               /\ Len(sleeps) = fetchCalls
               /\ attempt' = attempt + 1]_vars
  /\ [](InAttempt => (attempt = fetchCalls /\ Len(sleeps) = fetchCalls - 1))

\* the second fetch of a call, after a sleep of 1000 ms
C24_Witness ==
  /\ pc = "fetching" /\ attempt = 2 /\ fetchCalls = 2 /\ sleeps = <<1000>>
  /\ req.method = "POST"

(***************************************************************************)
(* Two request calls on one Fetcher.  The variables hold the locals of the *)
(* call that is running; parked holds the locals of the other one, which   *)
(* waits at an await.  The two calls share this.config and nothing else:   *)
(* every other variable is a const or let of request or executeRequest.    *)
(***************************************************************************)
\* largest maxRetries of the Fetcher the two calls share
TwoMaxRetries == 1

TwoConfigs ==
  [maxRetries : 0..TwoMaxRetries, timeout : {5000}, baseUrl : {<<>>}, apiKey : {"sk_1"},
   authStyle : {"undefined"}]

TwoRequests ==
  [method : {"GET"}, idempotencyKey : {Undefined}, timeout : {Undef, Num(0)},
   body : {"undefined"},
   path : {<<"/", "emails">>}, query : {NoQuery}]

TwoResponses == [status : {200, 500}, retryAfter : {Null}, requestId : {"null"}]

\* the locals of the running call, as the record a parked call is kept in
Locals(id) ==
  [call |-> id, req |-> req, headers |-> headers, url |-> url, pc |-> pc, attempt |-> attempt,
   lastError |-> lastError, fetchCalls |-> fetchCalls, fetchAt |-> fetchAt,
   sleeps |-> sleeps, timer |-> timer, aborted |-> aborted, resp |-> resp,
   last |-> last, outcome |-> outcome, timerDelay |-> timerDelay,
   fetchOptions |-> fetchOptions, history |-> history]

InitTwoCalls ==
  /\ config \in TwoConfigs
  /\ req = NoRequest
  /\ headers = <<>>
  /\ url = ""
  /\ pc = "idle"
  /\ attempt = 0
  /\ lastError = NoError
  /\ fetchCalls = 0
  /\ fetchAt = <<>>
  /\ sleeps = <<>>
  /\ timer = "none"
  /\ aborted = FALSE
  /\ resp = NoResp
  /\ last = NoLast
  /\ outcome = Pending
  /\ direct = NoDirect
  /\ timerDelay = 0
  /\ fetchOptions = NoFetchOptions
  /\ history = <<>>
  /\ parked = [call |-> 2, req |-> NoRequest, headers |-> <<>>, url |-> "", pc |-> "idle",
               attempt |-> 0, lastError |-> NoError, fetchCalls |-> 0, fetchAt |-> <<>>,
               sleeps |-> <<>>, timer |-> "none", aborted |-> FALSE, resp |-> NoResp,
               last |-> NoLast, outcome |-> Pending, timerDelay |-> 0,
               fetchOptions |-> NoFetchOptions, history |-> <<>>]

\* variant: the attempt counter is a field of the Fetcher, shared by its calls
SwitchSharedAttempt ==
  /\ parked.pc # "none"
  /\ parked' = Locals(3 - parked.call)
  /\ req' = parked.req
  /\ headers' = parked.headers
  /\ url' = parked.url
  /\ pc' = parked.pc
  /\ lastError' = parked.lastError
  /\ fetchCalls' = parked.fetchCalls
  /\ fetchAt' = parked.fetchAt
  /\ sleeps' = parked.sleeps
  /\ timer' = parked.timer
  /\ aborted' = parked.aborted
  /\ resp' = parked.resp
  /\ last' = parked.last
  /\ outcome' = parked.outcome
  /\ timerDelay' = parked.timerDelay
  /\ fetchOptions' = parked.fetchOptions
  /\ history' = parked.history
  /\ UNCHANGED <<config, direct, attempt>>

\* the event loop turns from the running call, which is at an await or has
\* not started or has ended, to the other call
Switch ==
  /\ parked.pc # "none"
  /\ parked' = Locals(3 - parked.call)
  /\ req' = parked.req
  /\ headers' = parked.headers
  /\ url' = parked.url
  /\ pc' = parked.pc
  /\ attempt' = parked.attempt
  /\ lastError' = parked.lastError
  /\ fetchCalls' = parked.fetchCalls
  /\ fetchAt' = parked.fetchAt
  /\ sleeps' = parked.sleeps
  /\ timer' = parked.timer
  /\ aborted' = parked.aborted
  /\ resp' = parked.resp
  /\ last' = parked.last
  /\ outcome' = parked.outcome
  /\ timerDelay' = parked.timerDelay
  /\ fetchOptions' = parked.fetchOptions
  /\ history' = parked.history
  /\ UNCHANGED <<config, direct>>

NextTwoCalls ==
  \/ \E r \in TwoRequests : Request(r)
  \/ \E r \in TwoResponses : FetchResolve(r)
  \/ \E body \in WireBodies : BodyArrives(body)
  \/ \E message \in TransportMessages : FetchReject(message)
  \/ FetchRejectRaw
  \/ TimerFire
  \/ SleepElapses
  \/ Switch

SpecTwoCalls == InitTwoCalls /\ [][NextTwoCalls]_vars

(***************************************************************************)
(* A request call run alone, from its start, against the list of the ways  *)
(* its attempts end: the number of calls of fetch, the sleeps and the      *)
(* outcome (Pending while an attempt is in progress).                      *)
(***************************************************************************)
\* what the try block of executeRequest gives for an attempt that ends as how
TryOutcome(how) ==
  CASE how.kind = "response" ->
         IF NoContent(how.resp.status) THEN Return("undefined")
         ELSE handleResponse(how.resp, how.body)
    [] how.kind = "abortRead" -> handleResponse(how.resp, NonJson)
    [] how.kind = "reject" -> Throw(NativeError("TypeError", how.message))
    [] how.kind = "rejectRaw" -> Throw(NonError)
    [] how.kind = "abortFetch" ->
         Throw(NativeError("AbortError", "This operation was aborted"))

RECURSIVE AloneLoop(_, _, _, _)
AloneLoop(cfg, hist, n, slept) ==
  IF hist = <<>>
    THEN [fetchCalls |-> n, sleeps |-> slept, outcome |-> Pending]
    ELSE LET res == executeRequestOutcome(TryOutcome(Head(hist)))
         IN  IF res.tag = "return"
               THEN [fetchCalls |-> n, sleeps |-> slept, outcome |-> res]
               ELSE IF ~isRetryable(res.error, res.error) \/ n >= maxAttemptsOf(cfg)
                      THEN [fetchCalls |-> n, sleeps |-> slept,
                            outcome |-> Throw(res.error)]
                      ELSE AloneLoop(cfg, Tail(hist), n + 1,
                                     Append(slept, getRetryDelay(res.error, n)))

Alone(cfg, r, hist) ==
  LET h == buildHeaders(cfg, r.idempotencyKey)
  IN  IF h.tag = "throw"
        THEN [fetchCalls |-> 0, sleeps |-> <<>>, outcome |-> Throw(h.error)]
        ELSE IF 0 < maxAttemptsOf(cfg)
               THEN AloneLoop(cfg, hist, 1, <<>>)
               ELSE [fetchCalls |-> 0, sleeps |-> <<>>,
                     outcome |-> Throw(MailBreezeError("Unexpected error during request",
                                         "UNEXPECTED_ERROR", Undef, "undefined",
                                         "undefined"))]

(***************************************************************************)
(* C25: two calls on one Fetcher do not interfere: a step of the running   *)
(* call changes nothing of the parked call (it does not abort it, delay it *)
(* or use up its attempts), and under every interleaving each call that    *)
(* has ended made the calls of fetch, slept the delays and had the outcome *)
(* that it has when run alone against the same ends of its attempts.       *)
(***************************************************************************)
Turn == parked'.call # parked.call

SameAsAlone(l) ==
  l.pc \in {"returned", "thrown"} =>
    [fetchCalls |-> l.fetchCalls, sleeps |-> l.sleeps, outcome |-> l.outcome]
      = Alone(config, l.req, l.history)

C25_ConcurrentCallsAreIndependent ==
  /\ [][~Turn => parked' = parked]_vars
  /\ [][Turn => /\ parked' = Locals(parked'.call)
                /\ [Locals(0)' EXCEPT !.call = parked.call] = parked]_vars
  /\ [](SameAsAlone(Locals(0)) /\ SameAsAlone(parked))

\* one call timed out on its second attempt, the other returned a payload on
\* its second attempt
C25_Witness ==
  /\ pc = "thrown" /\ last.kind = "abortFetch" /\ fetchCalls = 2
  /\ parked.pc = "returned" /\ parked.fetchCalls = 2
  /\ parked.outcome = Return("data_1") /\ ~parked.aborted

(***************************************************************************)
(* C26: a call that has ended has one outcome, a returned payload or a     *)
(* thrown MailBreezeError: whatever made its last attempt fail (a bad key, *)
(* the timer, any value fetch rejected with, an HTTP status, a             *)
(* success:false envelope) the caller gets a MailBreezeError, an attempt   *)
(* the timer aborted never counts as a success, and the error of an        *)
(* attempt that was retried is not what the caller gets.                   *)
(***************************************************************************)
C26_OneOutcomeAlwaysClassified ==
  /\ pc = "returned" => (outcome.tag = "return" /\ last.kind = "response")
  /\ pc = "thrown" =>
       /\ outcome.tag = "throw"
       /\ IsMailBreezeError(outcome.error)
       /\ fetchCalls > 0 => outcome.error = lastError
  /\ pc \notin {"returned", "thrown"} => outcome = Pending

(***************************************************************************)
(* C27: whenever an attempt that got an HTTP response fails, the requestId *)
(* of its error is the X-Request-Id of the response, and is absent when    *)
(* the header is, whether or not the body parsed, whatever the body says   *)
(* and whatever the status.                                                *)
(***************************************************************************)
C27_RequestIdFromTheHeader ==
  (last.kind \in {"response", "abortRead"} /\ AttemptFailed) =>
    lastError.requestId = RequestIdHeader(last.resp)

(***************************************************************************)
(* C28: the headers given to fetch carry exactly one authentication        *)
(* header, on every attempt: X-API-Key with the apiKey when authStyle is   *)
(* "header" or unset, Authorization with "Bearer " and the apiKey when it  *)
(* is "bearer"; never both, never neither.                                 *)
(***************************************************************************)
AuthHeaderNames == {"X-API-Key", "Authorization"}

C28_ExactlyOneAuthenticationHeader ==
  fetchCalls > 0 =>
    LET sent == fetchOptions.headers
    IN  /\ Cardinality(DOMAIN sent \cap AuthHeaderNames) = 1
        /\ IF config.authStyle = "bearer"
             THEN /\ "Authorization" \in DOMAIN sent
                  /\ sent["Authorization"] = "Bearer " \o config.apiKey
             ELSE /\ "X-API-Key" \in DOMAIN sent
                  /\ sent["X-API-Key"] = config.apiKey

\* the second fetch of a call of a Fetcher whose authStyle is bearer
C28_Witness ==
  /\ pc = "fetching" /\ fetchCalls = 2 /\ config.authStyle = "bearer"
  /\ DOMAIN fetchOptions.headers \cap AuthHeaderNames = {"Authorization"}
  /\ fetchOptions.headers["Authorization"] = "Bearer sk_1"

(***************************************************************************)
(* C29: the options given to fetch have a body, the JSON text of the       *)
(* request body, exactly when a body was given and the method is neither   *)
(* GET nor HEAD; a GET or HEAD fetch never has a body; this on the first   *)
(* attempt and on every retry.                                             *)
(***************************************************************************)
BodyGiven == req.body \notin {"undefined", "null"}

C29_BodyOnlyWhenGivenAndNotGetOrHead ==
  fetchCalls > 0 =>
    /\ fetchOptions.method = req.method
    /\ ("body" \in DOMAIN fetchOptions) <=> (BodyGiven /\ req.method \notin {"GET", "HEAD"})
    /\ ("body" \in DOMAIN fetchOptions) =>
         fetchOptions.body = (IF req.body = "obj_empty" THEN "{}" ELSE "{\"a\":1}")

\* the retry of a POST carries the JSON text of its (empty) body again
C29_Witness ==
  /\ pc = "fetching" /\ fetchCalls = 2 /\ req.method = "POST" /\ req.body = "obj_empty"
  /\ "body" \in DOMAIN fetchOptions /\ fetchOptions.body = "{}"

(***************************************************************************)
(* buildUrl called directly, the Fetcher built on each base URL.           *)
(***************************************************************************)
InitUrl ==
  /\ config = [maxRetries |-> 0, timeout |-> 5000, baseUrl |-> <<>>, apiKey |-> "sk_1",
               authStyle |-> "undefined"]
  /\ req = NoRequest
  /\ headers = <<>>
  /\ url = ""
  /\ pc = "idle"
  /\ attempt = 0
  /\ lastError = NoError
  /\ fetchCalls = 0
  /\ fetchAt = <<>>
  /\ sleeps = <<>>
  /\ timer = "none"
  /\ aborted = FALSE
  /\ resp = NoResp
  /\ last = NoLast
  /\ outcome = Pending
  /\ timerDelay = 0
  /\ fetchOptions = NoFetchOptions
  /\ parked = NoParked
  /\ history = HistoryOff
  /\ direct \in [fn : {"buildUrl"}, baseUrl : BaseUrls, path : Paths, query : {NoQuery},
                  done : {FALSE}, result : {""}]

\* new Fetcher({baseUrl, ...}).buildUrl(path, query) returns
BuildUrl ==
  /\ direct.fn = "buildUrl"
  /\ ~direct.done
  /\ direct' = [direct EXCEPT
                  !.done = TRUE,
                  !.result = buildUrl(constructorBaseUrl(direct.baseUrl), direct.path,
                                     direct.query)]
  /\ UNCHANGED <<config, req, headers, url, pc, attempt, lastError, fetchCalls, fetchAt,
                 sleeps, timer, aborted, resp, last, outcome, timerDelay, fetchOptions,
                 parked, history>>

NextUrl == BuildUrl

SpecUrl == InitUrl /\ [][NextUrl]_vars

(***************************************************************************)
(* C30: the URL is the base URL without one slash at its end, followed by  *)
(* the path with a slash put before it when it does not start with one:    *)
(* base "https://api.example.com/" or "https://api.example.com" with path  *)
(* "emails" or "/emails" gives exactly "https://api.example.com/emails".   *)
(***************************************************************************)
WithoutOneTrailingSlash(pieces) ==
  IF pieces # <<>> /\ pieces[Len(pieces)] = "/" THEN SubSeq(pieces, 1, Len(pieces) - 1)
  ELSE pieces

StartingWithSlash(pieces) ==
  IF pieces # <<>> /\ Head(pieces) = "/" THEN pieces ELSE <<"/">> \o pieces

C30_UrlIsBaseThenPath ==
  direct.done =>
    /\ direct.result =
         Origin \o Concat(WithoutOneTrailingSlash(direct.baseUrl))
                \o Concat(StartingWithSlash(direct.path))
    /\ (direct.baseUrl \in {<<>>, <<"/">>}
          /\ direct.path \in {<<"emails">>, <<"/", "emails">>}) =>
         direct.result = "https://api.example.com/emails"

\* base "https://api.example.com/" with path "emails"
C30_Witness ==
  /\ direct.done /\ direct.baseUrl = <<"/">> /\ direct.path = <<"emails">>
  /\ direct.result = "https://api.example.com/emails"

(***************************************************************************)
(* buildUrl called directly with a query object                            *)
(***************************************************************************)
InitQuery ==
  /\ config = [maxRetries |-> 0, timeout |-> 5000, baseUrl |-> <<>>, apiKey |-> "sk_1",
               authStyle |-> "undefined"]
  /\ req = NoRequest
  /\ headers = <<>>
  /\ url = ""
  /\ pc = "idle"
  /\ attempt = 0
  /\ lastError = NoError
  /\ fetchCalls = 0
  /\ fetchAt = <<>>
  /\ sleeps = <<>>
  /\ timer = "none"
  /\ aborted = FALSE
  /\ resp = NoResp
  /\ last = NoLast
  /\ outcome = Pending
  /\ timerDelay = 0
  /\ fetchOptions = NoFetchOptions
  /\ parked = NoParked
  /\ history = HistoryOff
  /\ direct \in [fn : {"buildUrl"}, baseUrl : {<<>>}, path : {<<"/", "emails">>},
                  query : QueryObjects \cup {NoQuery}, done : {FALSE}, result : {""}]

SpecQuery == InitQuery /\ [][NextUrl]_vars

(***************************************************************************)
(* C31: the query string holds exactly the entries of the query object     *)
(* whose value is neither undefined nor null, each stringified, in the     *)
(* order the entries were inserted; the other entries leave no trace, and  *)
(* when no entry remains there is no query string.                         *)
(***************************************************************************)
\* a value as text in a query string
Stringified(value) ==
  CASE value = QueryNumber(0) -> "0"
    [] value = QueryNumber(10) -> "10"
    [] value = QueryBoolean(FALSE) -> "false"
    [] value = QueryString(<<>>) -> ""
    [] value = QueryString(<<"s", "e", "n", "t">>) -> "sent"
    [] value = QueryString(<<"a", " ", "b">>) -> "a+b"

Present(entry) == entry.value # QueryUndefined /\ entry.value # QueryNull

RECURSIVE Joined(_)
Joined(entries) ==
  IF entries = <<>> THEN ""
  ELSE Head(entries).key \o "=" \o Stringified(Head(entries).value)
       \o (IF Len(entries) > 1 THEN "&" \o Joined(Tail(entries)) ELSE "")

\* the URL of /emails with the given entries as its query string
EmailsWith(entries) ==
  "https://api.example.com/emails"
    \o (IF entries = <<>> THEN "" ELSE "?" \o Joined(entries))

QueryBuilt == direct.done /\ direct.query.passed

C31_QueryInInsertionOrder ==
  QueryBuilt => direct.result = EmailsWith(SelectSeq(direct.query.entries, Present))

\* C31 as the code has it: as above, in the order in which the object
\* enumerates its entries, which is the insertion order for the names that
\* are not integer indices, after the integer indices in ascending order
IsIndex(entry) == entry.key \in {"2", "10"}
NotIndex(entry) == ~IsIndex(entry)

IndicesFirst(entries) ==
  LET at(k) == SelectSeq(entries, LAMBDA e : e.key = k)
  IN at("2") \o at("10") \o SelectSeq(entries, NotIndex)

C31_QueryInEnumerationOrder ==
  /\ QueryBuilt =>
       direct.result = EmailsWith(IndicesFirst(SelectSeq(direct.query.entries, Present)))
  /\ (direct.done /\ ~direct.query.passed) => direct.result = EmailsWith(<<>>)

\* {page: 10, status: undefined} gives ?page=10
C31_Witness ==
  /\ direct.done
  /\ direct.query.passed
  /\ direct.query.entries = <<[key |-> "page", value |-> QueryNumber(10)],
                              [key |-> "status", value |-> QueryUndefined]>>
  /\ direct.result = "https://api.example.com/emails?page=10"

(***************************************************************************)
(* Two request calls of one Fetcher, one of which may start after the      *)
(* other has ended, with per-call timeouts and Retry-After headers.        *)
(***************************************************************************)
LaterMaxRetries == 1

LaterConfigs ==
  [maxRetries : 0..LaterMaxRetries, timeout : {5000}, baseUrl : {<<>>}, apiKey : {"sk_1"},
   authStyle : {"undefined"}]

LaterRequests ==
  [method : {"GET"}, idempotencyKey : {Undefined}, timeout : {Undef, Num(100)},
   body : {"undefined"},
   path : {<<"/", "emails">>}, query : {NoQuery}]

LaterResponses == [status : {200, 429}, retryAfter : {Null, <<"2">>}, requestId : {"null"}]

InitLaterCalls ==
  /\ config \in LaterConfigs
  /\ req = NoRequest
  /\ headers = <<>>
  /\ url = ""
  /\ pc = "idle"
  /\ attempt = 0
  /\ lastError = NoError
  /\ fetchCalls = 0
  /\ fetchAt = <<>>
  /\ sleeps = <<>>
  /\ timer = "none"
  /\ aborted = FALSE
  /\ resp = NoResp
  /\ last = NoLast
  /\ outcome = Pending
  /\ direct = NoDirect
  /\ timerDelay = 0
  /\ fetchOptions = NoFetchOptions
  /\ history = HistoryOff
  /\ parked = [call |-> 2, req |-> NoRequest, headers |-> <<>>, url |-> "", pc |-> "idle",
               attempt |-> 0, lastError |-> NoError, fetchCalls |-> 0, fetchAt |-> <<>>,
               sleeps |-> <<>>, timer |-> "none", aborted |-> FALSE, resp |-> NoResp,
               last |-> NoLast, outcome |-> Pending, timerDelay |-> 0,
               fetchOptions |-> NoFetchOptions, history |-> HistoryOff]

NextLaterCalls ==
  \/ \E r \in LaterRequests : Request(r)
  \/ \E r \in LaterResponses : FetchResolve(r)
  \/ \E body \in WireBodies : BodyArrives(body)
  \/ \E message \in TransportMessages : FetchReject(message)
  \/ FetchRejectRaw
  \/ TimerFire
  \/ SleepElapses
  \/ Switch

SpecLaterCalls == InitLaterCalls /\ [][NextLaterCalls]_vars

(***************************************************************************)
(* C32: no step of a request call, whatever its outcome, changes the       *)
(* configuration (apiKey, baseUrl, timeout, maxRetries, authStyle); a call *)
(* made without options.timeout runs under the configured timeout and      *)
(* within maxRetries + 1 attempts even after a call with its own timeout   *)
(* or a response with Retry-After.                                         *)
(***************************************************************************)
OtherCallEnded == parked.pc \in {"returned", "thrown"}

C32_ConfigurationIsReadOnly ==
  /\ [][config' = config]_vars
  /\ []((pc = "fetching" /\ req.timeout = Undef) => timerDelay = config.timeout)
  /\ [](fetchCalls <= config.maxRetries + 1)

\* the other call ran with options.timeout 100, slept the 2 s of a Retry-After
\* and ended; the running call, without options, has its timer at the default
C32_Witness ==
  /\ OtherCallEnded /\ parked.req.timeout = Num(100) /\ parked.sleeps = <<2000>>
  /\ pc = "fetching" /\ req.timeout = Undef /\ timerDelay = 5000
  /\ config.timeout = 5000 /\ config.maxRetries = 1

(***************************************************************************)
(* resources/emails.ts: Emails.list, called directly on what the fetcher   *)
(* resolved with.  The response is an array, or an object with or without  *)
(* the properties data, emails and pagination.                             *)
(***************************************************************************)
\* most items of a response
MaxItems == 2

Items == UNION {[1..n -> {"email_1", "email_2"}] : n \in 0..MaxItems}

Pagination(page, limit, total, totalPages, hasNext, hasPrev) ==
  [page |-> page, limit |-> limit, total |-> total, totalPages |-> totalPages,
   hasNext |-> hasNext, hasPrev |-> hasPrev]

Paginations ==
  {Pagination(1, 20, 100, 5, TRUE, FALSE), Pagination(2, 20, 100, 5, TRUE, TRUE),
   Pagination(1, 20, 0, 0, FALSE, FALSE), Pagination(5, 20, 100, 5, FALSE, TRUE)}

\* a property that an object does not have
UndefinedPagination == [type |-> "undefined"]

ListResponses ==
  [isArray : {FALSE}, items : {<<>>}, data : Items, emails : {Undefined},
   pagination : Paginations]
    \cup [isArray : {FALSE}, items : {<<>>}, data : {Undefined}, emails : Items,
          pagination : Paginations]
    \cup [isArray : {TRUE}, items : Items, data : {Undefined}, emails : {Undefined},
          pagination : {UndefinedPagination}]

\* Emails.list after the await: { data: response.emails, pagination:
\* response.pagination }
EmailsList(response) == [data |-> response.emails, pagination |-> response.pagination]

InitList ==
  /\ config = [maxRetries |-> 0, timeout |-> 5000, baseUrl |-> <<>>, apiKey |-> "sk_1",
               authStyle |-> "undefined"]
  /\ req = NoRequest
  /\ headers = <<>>
  /\ url = ""
  /\ pc = "idle"
  /\ attempt = 0
  /\ lastError = NoError
  /\ fetchCalls = 0
  /\ fetchAt = <<>>
  /\ sleeps = <<>>
  /\ timer = "none"
  /\ aborted = FALSE
  /\ resp = NoResp
  /\ last = NoLast
  /\ outcome = Pending
  /\ timerDelay = 0
  /\ fetchOptions = NoFetchOptions
  /\ parked = NoParked
  /\ history = HistoryOff
  /\ direct \in [fn : {"list"}, response : ListResponses, done : {FALSE},
                  result : {[data |-> Undefined, pagination |-> UndefinedPagination]}]

\* emails.list() returns, the fetcher having resolved with direct.response
List ==
  /\ direct.fn = "list"
  /\ ~direct.done
  /\ direct' = [direct EXCEPT !.done = TRUE, !.result = EmailsList(direct.response)]
  /\ UNCHANGED <<config, req, headers, url, pc, attempt, lastError, fetchCalls, fetchAt,
                 sleeps, timer, aborted, resp, last, outcome, timerDelay, fetchOptions,
                 parked, history>>

NextList == List

SpecList == InitList /\ [][NextList]_vars

(***************************************************************************)
(* C33: Emails.list returns the items of the fetcher's response as data:   *)
(* for a response {data, pagination}, that data and that pagination; for a *)
(* bare array, the array as data with pagination of page 1 and total the   *)
(* length of the array.                                                    *)
(***************************************************************************)
DataAndPagination ==
  ~direct.response.isArray /\ direct.response.data # Undefined

BareArray == direct.response.isArray

C33_ListReturnsTheItemsOfTheResponse ==
  direct.done =>
    /\ DataAndPagination =>
         /\ direct.result.data = direct.response.data
         /\ direct.result.pagination = direct.response.pagination
    /\ BareArray =>
         /\ direct.result.data = direct.response.items
         /\ direct.result.pagination # UndefinedPagination
         /\ direct.result.pagination.page = 1
         /\ direct.result.pagination.total = Len(direct.response.items)

(***************************************************************************)
(* C34: every attempt of a request call after the first is sent with the   *)
(* method, URL, headers and body of the attempt before it; the URL and the *)
(* headers are those built before the first attempt, so that a retry       *)
(* carries the X-Idempotency-Key of the first attempt.                     *)
(***************************************************************************)
FetchAgain == fetchCalls >= 1 /\ fetchCalls' = fetchCalls + 1

FetchCalled == fetchCalls >= 1

C34_AttemptsSendTheSameRequest ==
  /\ [][FetchAgain => (url' = url /\ fetchOptions' = fetchOptions)]_vars
  /\ [](FetchCalled =>
          /\ url = buildUrl(config.baseUrl, req.path, req.query)
          /\ fetchOptions.method = req.method
          /\ fetchOptions.headers = headers
          /\ req.idempotencyKey # Undefined =>
               fetchOptions.headers["X-Idempotency-Key"] = req.idempotencyKey)

\* the second attempt of a POST with a key, a body and a query
C34_Witness ==
  /\ pc = "fetching" /\ fetchCalls = 2
  /\ req.method = "POST" /\ req.idempotencyKey = <<"k">> /\ req.body = "obj_a1"
  /\ fetchOptions.headers["X-Idempotency-Key"] = <<"k">>
  /\ fetchOptions.body = "{\"a\":1}"
  /\ url = "https://api.example.com/emails?page=10"

(***************************************************************************)
(* C35: an attempt whose fetch resolved with a response, whatever the      *)
(* status and whatever JSON the body is (null, or an object without the    *)
(* envelope fields), never fails with code NETWORK_ERROR or statusCode 0,  *)
(* and is never retried as a network failure.                              *)
(***************************************************************************)
GotResponse == last.kind = "response"

C35_ResponseIsNeverANetworkFailure ==
  (GotResponse /\ AttemptFailed) =>
    /\ lastError.code # "NETWORK_ERROR"
    /\ lastError.statusCode # Num(0)

(***************************************************************************)
(* C36: with maxRetries >= 0 and an idempotency key that is absent or has  *)
(* no CR or LF, a request call that has finished has called fetch at least *)
(* once, and the error it threw, if any, is not the UNEXPECTED_ERROR       *)
(* fallback after the loop.                                                *)
(***************************************************************************)
CallFinished == pc \in {"returned", "thrown"}

FallbackThrown == outcome.tag = "throw" /\ outcome.error.code = "UNEXPECTED_ERROR"

C36_LoopRunsAtLeastOnce ==
  (CallFinished /\ config.maxRetries >= 0 /\ ~ContainsLineBreak(req.idempotencyKey)) =>
    /\ fetchCalls >= 1
    /\ ~FallbackThrown

\* maxRetries 0: the call ends with the error of its only attempt
C36_Witness ==
  /\ pc = "thrown" /\ config.maxRetries = 0 /\ req.idempotencyKey = <<"k">>
  /\ fetchCalls = 1 /\ outcome.error.statusCode = Num(500)

(***************************************************************************)
(* C37: in a request call that has called fetch, the backoff sleeps are    *)
(* one fewer than the calls of fetch: none before the first attempt, one   *)
(* between two attempts, none after the last, so that the error of the     *)
(* last attempt is thrown without delay (maxRetries 2 and 500 throughout:  *)
(* thrown after the sleeps of 1000 and 2000 ms).                           *)
(***************************************************************************)
C37_OneSleepBetweenAttempts ==
  FetchCalled =>
    /\ fetchAt[1] = 0
    /\ pc \in {"fetching", "reading", "returned", "thrown"} =>
         /\ Len(sleeps) = fetchCalls - 1
         /\ fetchAt[fetchCalls] = Sum(sleeps)
    /\ pc = "sleeping" => Len(sleeps) = fetchCalls

\* maxRetries 2, three attempts, thrown after 1000 + 2000 ms of sleep
C37_Witness ==
  /\ pc = "thrown" /\ config.maxRetries = 2 /\ fetchCalls = 3
  /\ outcome.error.statusCode = Num(500)
  /\ sleeps = <<1000, 2000>> /\ fetchAt[3] = 3000

(***************************************************************************)
(* C38: the delay before the retry of a failure that is not a 429, that    *)
(* is, of a 5xx response or of a network error, is 2^(n-1) * 1000 ms after *)
(* attempt n, whether or not the response has a Retry-After header; only   *)
(* after a 429 response can Retry-After be the delay.                      *)
(***************************************************************************)
FailedWith5xx == last.kind \in {"response", "abortRead"} /\ last.resp.status >= 500

FailedOnNetwork == last.kind = "reject"

LastSleep == sleeps[Len(sleeps)]

C38_BackoffUnlessRateLimited ==
  /\ (pc = "sleeping" /\ (FailedWith5xx \/ FailedOnNetwork)) =>
       LastSleep = 2 ^ (attempt - 1) * 1000
  /\ (pc = "sleeping" /\ LastSleep # 2 ^ (attempt - 1) * 1000) =>
       (last.kind \in {"response", "abortRead"} /\ last.resp.status = 429)

\* a 503 with Retry-After: 60 on the second attempt is retried after 2000 ms
C38_Witness ==
  /\ pc = "sleeping" /\ attempt = 2
  /\ last.kind = "response" /\ last.resp.status = 503
  /\ last.resp.retryAfter = <<"6", "0">>
  /\ sleeps = <<1000, 2000>>

(***************************************************************************)
(* The request call under fair scheduling: a pending fetch or a pending    *)
(* response.json() eventually settles or is aborted by the timer, and the  *)
(* timer of a sleep eventually fires.                                      *)
(***************************************************************************)
AttemptSettles ==
  \/ \E r \in WireResponses : FetchResolve(r)
  \/ \E body \in WireBodies : BodyArrives(body)
  \/ \E message \in TransportMessages : FetchReject(message)
  \/ FetchRejectRaw
  \/ TimerFire

SpecWireFair == SpecWire /\ WF_vars(AttemptSettles) /\ WF_vars(SleepElapses)

(***************************************************************************)
(* C39: when every fetch eventually completes or is aborted by its timer   *)
(* and every backoff sleep eventually elapses, a request call that has     *)
(* started eventually returns a payload or throws an error, whatever       *)
(* maxRetries >= 0 and whatever the transport answers.                     *)
(***************************************************************************)
CallStarted == pc # "idle"

C39_EveryCallEventuallyFinishes == CallStarted ~> CallFinished

\* a call with maxRetries 1 that has ended after its second attempt
C39_Witness ==
  /\ pc = "thrown" /\ config.maxRetries = 1 /\ fetchCalls = 2
  /\ outcome.tag = "throw"

====
